---------------------------- MODULE Spec2Model ----------------------------
(***************************************************************************)
(* Batch processing and job orchestration of the YouTube analyzer:         *)
(*   - VideoOrchestrator.process_video   (app/services/orchestrator.py)    *)
(*   - BatchProcessor                    (services/batch_processor.py)     *)
(*   - JobManager                        (app/services/job_manager.py)     *)
(* The program runs on one asyncio event loop: a step of the model is what *)
(* one task does between two suspension points (await of a semaphore, of a *)
(* wait_for, of a gather).  Code between two suspension points is atomic.  *)
(***************************************************************************)
EXTENDS Integers, Sequences, FiniteSets, TLC

\* ------------------------------------------------------------------ bounds
MaxBatches == 2
MaxUrls == 2
MaxConcurrent == 3
MaxCancels == 2
MaxRetries == 2
\* The largest max_retries of a RetryManager.
MaxAttempts == 3
\* The callers of the transcript cache, the clock and the ttl of the cache.
MaxThreads == 2
MaxTime == 3
Ttl == 1
\* The longest transcript given to the chunker, in segments.
MaxSegments == 3
\* The most chunks given to summarize_transcript.
MaxChunks == 3
\* summarization_service.py lines 187 and 206: the caps of the merge.
InsightsCap == 12
BulletsCap == 8

Batches == 1..MaxBatches

\* An absent string is "None"; an absent record or number is Nil, a present
\* one Some(x), read back with Get.
None == "None"
Nil == <<>>
Some(x) == <<x>>
Get(opt) == opt[1]

\* ------------------------------------------------- process_video, by stage
\* The outcomes the collaborators of one process_video invocation can have.
VideoIdOutcomes == {"id", "none"}
MetadataErrorCodes ==
    {"INVALID_URL", "VIDEO_UNAVAILABLE", "VIDEO_PRIVATE",
     "METADATA_FETCH_ERROR", "NO_INFO"}
MetadataOutcomes == {"ok", "raise", "nothing"} \cup MetadataErrorCodes
\* The transcript fetcher returns transcripts in some of the languages, or an
\* error value, or raises.
Langs == {"es", "en"}
TranscriptOk(langs) == [status |-> "ok", langs |-> langs]
TranscriptOutcomes ==
    {TranscriptOk(ls) : ls \in SUBSET Langs}
        \cup {[status |-> st, langs |-> {}] : st \in {"error", "raise"}}
\* The chunker returns chunks for some of the languages, or raises.
Chunked(langs) == [raise |-> FALSE, langs |-> langs]
ChunkOutcomes == {Chunked(ls) : ls \in SUBSET Langs}
                     \cup {[raise |-> TRUE, langs |-> {}]}
\* summarize_bilingual returns a summary for some of the languages (none of
\* them is its error NO_SUMMARIES), or raises.
Summarized(langs) == [raise |-> FALSE, langs |-> langs]
SummaryOutcomes == {Summarized(ls) : ls \in SUBSET Langs}
                       \cup {[raise |-> TRUE, langs |-> {}]}

\* VideoResult(url, video_id, status, error, metadata, transcripts, summaries):
\* the optional fields are modelled by their presence.
VideoResult(url, video_id, status, code, metadata, transcripts, summaries) ==
    [url |-> url, video_id |-> video_id, status |-> status, code |-> code,
     metadata |-> metadata, transcripts |-> transcripts, summaries |-> summaries]

create_error_result(url, video_id, code) ==
    VideoResult(url, video_id, "error", code, FALSE, FALSE, FALSE)

\* The locals of one invocation: pc is the stage it is about to run; outcomes
\* and stages are the history of the stages it ran, kept when the invocation
\* is followed stage by stage.
NewInvocation(url) ==
    [pc |-> "extract", url |-> url, video_id |-> "unknown",
     metadata |-> FALSE, metadata_error |-> None,
     transcripts |-> FALSE, transcript_error |-> FALSE, langs |-> {},
     chunks |-> {}, summaries |-> {},
     stats_complete |-> FALSE, result |-> Nil, outcomes |-> <<>>,
     stages |-> <<>>]

Return(p, result) == [p EXCEPT !.pc = "returned", !.result = Some(result)]

\* Step 1: extract the video id; no id ends the pipeline with INVALID_URL.
ExtractVideoId(p, o) ==
    IF o = "none"
    THEN Return([p EXCEPT !.video_id = None],
                create_error_result(p.url, "unknown", "INVALID_URL"))
    ELSE [p EXCEPT !.pc = "metadata", !.video_id = "id"]

\* A _fetch_metadata that reports every failure as METADATA_ERROR.
fetch_metadata_error_generic(o) ==
    IF o = "ok" THEN None ELSE "METADATA_ERROR"

\* _fetch_metadata: the collaborator's error is passed on, an exception (also
\* the one of reading the title of a missing metadata) becomes METADATA_ERROR.
fetch_metadata_error(o) ==
    CASE o = "ok" -> None
      [] o \in {"raise", "nothing"} -> "METADATA_ERROR"
      [] OTHER -> o

\* A pipeline that goes on without metadata when the metadata fetch failed.
FetchMetadataContinues(p, o) ==
    LET err == fetch_metadata_error(o) IN
    [p EXCEPT !.pc = "transcripts", !.metadata = (err = None),
              !.metadata_error = err]

\* Step 2: fetch metadata; an error ends the pipeline with the error's code.
FetchMetadata(p, o) ==
    LET err == fetch_metadata_error(o) IN
    IF err # None
    THEN Return([p EXCEPT !.metadata_error = err],
                create_error_result(p.url, p.video_id, err))
    ELSE [p EXCEPT !.pc = "transcripts", !.metadata = TRUE]

\* A pipeline in which a failed transcript fetch is terminal, like a failed
\* metadata fetch.
FetchTranscriptsTerminal(p, o) ==
    IF o.status # "ok"
    THEN Return([p EXCEPT !.transcript_error = TRUE],
                create_error_result(p.url, p.video_id, "TRANSCRIPT_ERROR"))
    ELSE [p EXCEPT !.pc = "chunk", !.transcripts = TRUE, !.langs = o.langs]

\* Step 3: fetch transcripts; an error value or an exception leaves the
\* transcripts absent and the pipeline goes on.
FetchTranscripts(p, o) ==
    [p EXCEPT !.pc = "chunk", !.transcripts = (o.status = "ok"),
              !.transcript_error = (o.status # "ok"),
              !.langs = IF o.status = "ok" THEN o.langs ELSE {}]

\* Step 4: chunk the transcripts of each language there is; an exception of
\* the chunker gives no chunks at all.
ChunkTranscripts(p, o) ==
    [p EXCEPT !.pc = "summaries",
              !.chunks = IF p.transcripts /\ ~o.raise
                         THEN p.langs \cap o.langs ELSE {}]

\* Step 6: the ok result of lines 91-103, with stats.complete().
CreateResult(p, summaries) ==
    Return([p EXCEPT !.summaries = summaries, !.stats_complete = TRUE],
           VideoResult(p.url, p.video_id, "ok", None,
                       p.metadata, p.transcripts, summaries # {}))

\* A step 5 that calls the summarizer also when there are no chunks.
GenerateSummariesAlways(p) == [p EXCEPT !.pc = "await_llm"]

\* Step 5, up to its first suspension: without chunks there is nothing to
\* summarize and the result is built at once; with chunks the invocation is
\* suspended in summarize_bilingual (the LLM call, the retry's sleep).
GenerateSummariesBegin(p) ==
    IF p.chunks = {} THEN CreateResult(p, {}) ELSE [p EXCEPT !.pc = "await_llm"]

\* Step 5, resumed: the summaries of the languages summarized, or none on
\* the error NO_SUMMARIES or an exception.
GenerateSummariesEnd(p, o) ==
    CreateResult(p, IF o.raise THEN {} ELSE p.chunks \cap o.langs)

\* The code of process_video that runs without suspension, from the call to
\* the first await that suspends (or to the return): steps 1 to 4 call their
\* collaborators synchronously.
RunToSuspension(url, o1, o2, o3, o4) ==
    LET p1 == ExtractVideoId(NewInvocation(url), o1)
        p2 == IF p1.pc = "metadata" THEN FetchMetadata(p1, o2) ELSE p1
        p3 == IF p2.pc = "transcripts" THEN FetchTranscripts(p2, o3) ELSE p2
        p4 == IF p3.pc = "chunk" THEN ChunkTranscripts(p3, o4) ELSE p3
    IN  IF p4.pc = "summaries" THEN GenerateSummariesBegin(p4) ELSE p4

\* ------------------------------------------------------------------- state
VARIABLES
    max_concurrent,  \* BatchConfig.max_concurrent of the processor
    sem,             \* the free permits of BatchProcessor.semaphore
    kind,            \* per batch: "none", "sync" (process_batch awaited by
                     \* a request) or "job" (run by JobManager._process_job)
    urls,            \* per batch: the urls argument of process_batch
    options,         \* per batch: whether request.options is set
    tpc,             \* per batch: where the caller of process_batch stands
    must_cancel,     \* per job: Task.cancel() was called on its task
    item,            \* per batch and index: the task of _process_single_video
    completion,      \* per batch: the indexes in the order the items ended
    response,        \* per batch: the AnalysisResponse process_batch returned
    jobs,            \* JobManager.jobs
    running_tasks,   \* JobManager.running_tasks (its keys)
    cancel_log,      \* per job id: how the calls of cancel_job returned
    blocked,         \* the event loop is inside a call that never returns
    retry,           \* per batch: the locals of process_with_retry
    rm,              \* the call of RetryManager.execute_with_retry
    tc,              \* the TranscriptCache, the clock and its callers
    ck,              \* the call of TranscriptChunker.chunk_transcript
    mg,              \* the call of SummarizationService.summarize_transcript
    ft,              \* the call of TranscriptFetcher.fetch_transcripts
    wf,              \* the wait_for around one invocation of process_video
    clock,           \* datetime.now() as the JobManager reads it, in hours
    pv               \* the invocation of process_video followed stage by stage

vars == <<max_concurrent, sem, kind, urls, options, tpc, must_cancel, item,
          completion, response, jobs, running_tasks, cancel_log, blocked,
          retry, rm, tc, ck, mg, ft, wf, clock, pv>>

batch_vars == <<max_concurrent, sem, kind, urls, options, tpc, must_cancel,
                item, completion, response, jobs, running_tasks, cancel_log,
                blocked, retry, rm, tc, ck, mg, ft, wf, clock>>

\* No call of fetch_transcripts yet.
NoFetch ==
    [pc |-> "idle", use_whisper_fallback |-> TRUE, transcript_list |-> Nil,
     lang_error |-> None, best |-> Nil, downloads |-> 0, cleanups |-> 0, transcribed |-> 0,
     transcripts |-> Nil, error |-> None]

\* No wait_for(process_video(...)) yet.
NoWaitFor == [pc |-> "idle", cause |-> None, result |-> Nil]

\* Everything but the call of execute_with_retry.
other_vars == <<max_concurrent, sem, kind, urls, options, tpc, must_cancel,
                item, completion, response, jobs, running_tasks, cancel_log,
                blocked, retry, clock, pv>>

\* The urls of batch b: n distinct urls.
UrlList(b, n) == [i \in 1..n |-> (b - 1) * (MaxUrls + 1) + i]

\* What the collaborators do in the batches: a subset of the outcomes above.
BatchVideoIdOutcomes == {"id"}
BatchMetadataOutcomes == {"ok", "VIDEO_UNAVAILABLE"}
BatchTranscriptOutcomes == {TranscriptOk({"en"})}
BatchChunkOutcomes == {Chunked({"en"})}
BatchSummaryOutcomes == {Summarized({"en"})}

\* JobStatus(status, completed_at, result, error); completed_at is None (Nil)
\* or the datetime.now() of the moment it was set.
JobStatus(status, completed_at, result, error) ==
    [status |-> status, completed_at |-> completed_at, result |-> result,
     error |-> error]

ErrorInfo(code, message) == [code |-> code, message |-> message]

\* self.jobs[job_id] = job_status
Put(dict, key, value) ==
    [k \in DOMAIN dict \cup {key} |-> IF k = key THEN value ELSE dict[k]]

\* A task of _process_single_video: pc is
\*   "created"   the coroutine exists and nothing awaits it yet
\*   "waiting"   in `async with self.semaphore`, no permit yet
\*   "acquired"  permit held, process_video handed to wait_for, not yet run
\*   "awaiting"  process_video suspended in the summarization
\*   "hung"      process_video suspended in an await that never completes
\*   "blocking"  process_video inside a synchronous call that never returns
\*   "done"      returned (result, success)
\*   "cancelled" ended by CancelledError
Item(pc, result, success) == [pc |-> pc, result |-> result, success |-> success]

\* An `async with` that gives no permit back when its task is cancelled.
HoldsPermitNever(it) == FALSE

\* batch_processor.py line 129: the task is inside `async with self.semaphore`.
HoldsPermit(it) == it.pc \in {"acquired", "awaiting", "hung", "blocking"}
Finished(it) == it.pc \in {"done", "cancelled"}

Indexes(b) == 1..Len(urls[b])

\* The tasks of the items of batch b: none before process_batch is entered.
Items(b) == 1..Len(item[b])

\* The process_video invocations in progress under the processor.
InProgress == {<<b, i>> \in Batches \X (1..MaxUrls) :
                  i \in Items(b) /\ HoldsPermit(item[b][i])}

\* The locals of process_with_retry where it is not called.
NoRetry ==
    [retry_failed |-> FALSE, max_retries |-> 0, failed_urls |-> <<>>,
     retry_attempt |-> 0, invocations |-> <<>>]

\* execute_with_retry of a manager with the given max_retries and base_delay,
\* before its loop: no call of func and no sleep yet.
NewRetryCall(max_retries, base_delay) ==
    [max_retries |-> max_retries, base_delay |-> base_delay, pc |-> "idle",
     attempt |-> 0, last_exception |-> None, calls |-> <<>>, sleeps |-> <<>>,
     result |-> None, raised |-> None]

\* The callers of fetch_transcript and the video ids they ask for.
Threads == 1..MaxThreads
VideoIds == {"a", "b"}

\* A caller outside fetch_transcript.
IdleThread == [pc |-> "idle", video_id |-> "a", got |-> Nil, lines |-> Nil,
               result |-> Nil, calls |-> <<>>]

\* One attempt of fetch_transcript at a source, and whether it gave lines.
Attempt(source, got) == [source |-> source, got |-> got]

\* cache.py lines 20-22 and 70: the empty cache with its free lock; the
\* now is time.time().
NewCache ==
    [cache |-> [v \in VideoIds |-> Nil], lock |-> 0, now |-> 0,
     th |-> [t \in Threads |-> IdleThread]]

\* No call of chunk_transcript yet.
NoChunking ==
    [pc |-> "idle", segments |-> <<>>, language |-> "en", max_tokens |-> 0,
     max_chars |-> 0, total_tokens |-> 0, chunks |-> <<>>]

\* summarize_transcript(chunks, language) on n chunks, before its first LLM
\* request: lines 89-92.
NewSummarizeCall(n) ==
    [pc |-> "idle", n |-> n, outcomes |-> <<>>, chunk_summaries |-> <<>>,
     all_key_insights |-> <<>>, all_frameworks |-> <<>>,
     all_key_moments |-> <<>>, result |-> Nil, error |-> None]

NoMerge == NewSummarizeCall(0)

Init ==
    /\ max_concurrent \in 1..MaxConcurrent
    /\ sem = max_concurrent
    /\ kind = [b \in Batches |-> "none"]
    /\ urls = [b \in Batches |-> <<>>]
    /\ options = [b \in Batches |-> TRUE]
    /\ tpc = [b \in Batches |-> "none"]
    /\ must_cancel = [b \in Batches |-> FALSE]
    /\ item = [b \in Batches |-> <<>>]
    /\ completion = [b \in Batches |-> <<>>]
    /\ response = [b \in Batches |-> Nil]
    /\ jobs = <<>>
    /\ running_tasks = {}
    /\ cancel_log = [b \in Batches |-> <<>>]
    /\ blocked = FALSE
    /\ retry = [b \in Batches |-> NoRetry]
    /\ rm = NewRetryCall(0, 0)
    /\ tc = NewCache
    /\ ck = NoChunking
    /\ mg = NoMerge
    /\ ft = NoFetch
    /\ wf = NoWaitFor
    /\ clock = 0
    /\ pv = [NewInvocation(0) EXCEPT !.pc = "idle"]

\* ---------------------------------------------------------- BatchProcessor
\* process_batch, lines 53-71: the coroutines are created; with
\* max_concurrent == 1 they are awaited one after the other (only the first
\* is running), otherwise gather makes a task of each.
EnterBatch(n) ==
    [i \in 1..n |-> Item(IF max_concurrent = 1 /\ i > 1 THEN "created"
                         ELSE "waiting", Nil, FALSE)]

\* An item returned (result, success): its permit is released by the
\* `async with`, and in the sequential loop the next coroutine is awaited.
ItemReturns(its, i, result, success) ==
    [k \in 1..Len(its) |->
        IF k = i THEN Item("done", Some(result), success)
        ELSE IF k = i + 1 /\ its[k].pc = "created"
             THEN Item("waiting", Nil, FALSE)
        ELSE its[k]]

\* A cancel_job that marks the record and leaves the task running.
CancelRequestedNever(b) == FALSE

\* Task.cancel() reaches the tasks of a batch: cancel_job cancelled the task
\* of the job, and the task passes the cancellation on to what it awaits.
CancelRequested(b) == must_cancel[b]

\* A semaphore that lets everybody in.
SemaphoreFreeAlways == TRUE

\* `async with self.semaphore`: a permit is taken when one is free.
\* A task that is being cancelled gets CancelledError instead.
SemaphoreFree == sem > 0

Acquire(b, i) ==
    /\ ~blocked
    /\ tpc[b] = "gather"
    /\ i \in Indexes(b)
    /\ item[b][i].pc = "waiting"
    /\ ~CancelRequested(b)
    /\ SemaphoreFree
    /\ sem' = sem - 1
    /\ item' = [item EXCEPT ![b][i].pc = "acquired"]
    /\ UNCHANGED <<max_concurrent, kind, urls, options, tpc, must_cancel,
                   completion, response, jobs, running_tasks, cancel_log,
                   blocked, pv, retry,
                   rm, tc, ck, mg, ft, wf, clock>>

\* Reading options.languages of a request without options raises in step 3.
NoOptions == [status |-> "raise", langs |-> {}]

\* The first step of process_video under wait_for, lines 134-144: it runs to
\* its return or to its first suspension; its steps 1 to 4 are synchronous
\* calls, and one that never returns stops the event loop with it.
StartVideoOutcome(b, i, o1, o2, o3, o4, hang) ==
    /\ ~blocked
    /\ tpc[b] = "gather"
    /\ i \in Indexes(b)
    /\ item[b][i].pc = "acquired"
    /\   LET p == RunToSuspension(urls[b][i], o1, o2,
                                  IF options[b] THEN o3 ELSE NoOptions, o4) IN
         \/ /\ hang = "sync"
            /\ blocked' = TRUE
            /\ item' = [item EXCEPT ![b][i].pc = "blocking"]
            /\ UNCHANGED <<sem, completion>>
         \/ /\ hang = "no"
            /\ p.pc = "returned"
            /\ item' = [item EXCEPT ![b] =
                   ItemReturns(item[b], i, Get(p.result),
                               Get(p.result).status = "ok")]
            /\ sem' = sem + 1
            /\ completion' = [completion EXCEPT ![b] = Append(@, i)]
            /\ UNCHANGED blocked
         \/ /\ hang # "sync"
            /\ p.pc = "await_llm"
            /\ item' = [item EXCEPT ![b][i].pc =
                   IF hang = "await" THEN "hung" ELSE "awaiting"]
            /\ UNCHANGED <<sem, completion, blocked>>
    /\ UNCHANGED <<max_concurrent, kind, urls, options, tpc, must_cancel,
                   response, jobs, running_tasks, cancel_log, pv, retry,
                   rm, tc, ck, mg, ft, wf, clock>>

\* The same with what the collaborators do left open, as in the batches, and
\* the ways the invocation can hang given.
StartVideo(b, i, hangs) ==
    \E o1 \in BatchVideoIdOutcomes, o2 \in BatchMetadataOutcomes,
       o3 \in BatchTranscriptOutcomes, o4 \in BatchChunkOutcomes,
       hang \in hangs :
        StartVideoOutcome(b, i, o1, o2, o3, o4, hang)

\* process_video resumes after the summarization and returns its result.
FinishVideo(b, i) ==
    /\ ~blocked
    /\ tpc[b] = "gather"
    /\ i \in Indexes(b)
    /\ item[b][i].pc = "awaiting"
    /\ \E o5 \in BatchSummaryOutcomes :
         LET p0 == RunToSuspension(urls[b][i], "id", "ok",
                                   TranscriptOk({"en"}), Chunked({"en"}))
             p == GenerateSummariesEnd(p0, o5)
         IN  /\ item' = [item EXCEPT ![b] =
                   ItemReturns(item[b], i, Get(p.result),
                               Get(p.result).status = "ok")]
    /\ sem' = sem + 1
    /\ completion' = [completion EXCEPT ![b] = Append(@, i)]
    /\ UNCHANGED <<max_concurrent, kind, urls, options, tpc, must_cancel,
                   response, jobs, running_tasks, cancel_log, blocked, pv, retry,
                   rm, tc, ck, mg, ft, wf, clock>>

\* The result of lines 146-157.
TimeoutResult(url) ==
    VideoResult(url, "unknown", "error", "TIMEOUT", FALSE, FALSE, FALSE)

\* wait_for's timeout fires while process_video is suspended: the invocation
\* is cancelled and the item returns the TIMEOUT result.
Timeout(b, i) ==
    /\ ~blocked
    /\ tpc[b] = "gather"
    /\ i \in Indexes(b)
    /\ item[b][i].pc \in {"awaiting", "hung"}
    /\ item' = [item EXCEPT ![b] =
           ItemReturns(item[b], i, TimeoutResult(urls[b][i]), FALSE)]
    /\ sem' = sem + 1
    /\ completion' = [completion EXCEPT ![b] = Append(@, i)]
    /\ UNCHANGED <<max_concurrent, kind, urls, options, tpc, must_cancel,
                   response, jobs, running_tasks, cancel_log, blocked, pv, retry,
                   rm, tc, ck, mg, ft, wf, clock>>

\* CancelledError in a task of _process_single_video that is suspended in
\* the semaphore or in wait_for: it is not caught (lines 146, 159 catch
\* TimeoutError and Exception), the `async with` releases the permit the
\* task holds.  A process_video that wait_for has scheduled and that has not
\* run yet runs its first step before the cancellation reaches it.
ItemCancel(b, i) ==
    /\ ~blocked
    /\ tpc[b] = "gather"
    /\ i \in Indexes(b)
    /\ CancelRequested(b)
    /\ item[b][i].pc \in {"waiting", "awaiting", "hung"}
    /\ sem' = IF HoldsPermit(item[b][i]) THEN sem + 1 ELSE sem
    /\ item' = [item EXCEPT ![b][i].pc = "cancelled"]
    /\ completion' = [completion EXCEPT ![b] = Append(@, i)]
    /\ UNCHANGED <<max_concurrent, kind, urls, options, tpc, must_cancel,
                   response, jobs, running_tasks, cancel_log, blocked, pv, retry,
                   rm, tc, ck, mg, ft, wf, clock>>

\* url="unknown" (the urls are numbered from 1).
UnknownUrl == 0

\* The result gather's caller makes of an exception that a task returned,
\* lines 74-88.
TaskExceptionResult(url, video_id) ==
    VideoResult(UnknownUrl, "unknown", "error", "TASK_EXCEPTION",
                FALSE, FALSE, FALSE)

\* The result made of an unexpected exception of the invocation: by
\* process_video itself (orchestrator.py lines 105-108, with the video id it
\* has) or, when the exception leaves process_video, by
\* _process_single_video (lines 159-170, video id "unknown").
ExceptionResult(url, video_id) ==
    VideoResult(url, video_id, "error", "PROCESSING_ERROR", FALSE, FALSE, FALSE)

\* The invocation of an item raises an unexpected exception in its first
\* step: the exception is caught and the item returns (error result, False).
VideoRaises(b, i) ==
    /\ ~blocked
    /\ tpc[b] = "gather"
    /\ i \in Indexes(b)
    /\ item[b][i].pc = "acquired"
    /\ \E video_id \in {"id", "unknown"} :
          item' = [item EXCEPT ![b] =
              ItemReturns(item[b], i, ExceptionResult(urls[b][i], video_id),
                          FALSE)]
    /\ sem' = sem + 1
    /\ completion' = [completion EXCEPT ![b] = Append(@, i)]
    /\ UNCHANGED <<max_concurrent, kind, urls, options, tpc, must_cancel,
                   response, jobs, running_tasks, cancel_log, blocked, pv, retry,
                   rm, tc, ck, mg, ft, wf, clock>>

\* The returns in the order the items completed.
GatherResultsAsCompleted(b) == [k \in Indexes(b) |-> item[b][completion[b][k]]]

\* What gather (or the sequential loop) hands to lines 62-95: the items'
\* returns in the order of the urls.
GatherResults(b) == [i \in Indexes(b) |-> item[b][i]]

CountSuccess(rs, flag) == Cardinality({i \in 1..Len(rs) : rs[i].success = flag})

\* AnalysisResponse(results, aggregation), lines 62-109.
AnalysisResponse(b) ==
    LET rs == GatherResults(b) IN
    [results |-> [i \in 1..Len(rs) |-> Get(rs[i].result)],
     total |-> Len(urls[b]),
     succeeded |-> CountSuccess(rs, TRUE),
     failed |-> CountSuccess(rs, FALSE)]

AllDone(b) == \A i \in Indexes(b) : item[b][i].pc = "done"

\* BatchConfig.max_concurrent of default_batch_processor, which runs the jobs.
DefaultMaxConcurrent == 3

\* A request handler calls process_batch and awaits it (api/analyze.py).
SubmitSync(b, n) ==
    /\ ~blocked
    /\ kind[b] = "none"
    /\ \A a \in Batches : a < b => kind[a] # "none"
    /\ kind' = [kind EXCEPT ![b] = "sync"]
    /\ urls' = [urls EXCEPT ![b] = UrlList(b, n)]
    /\ item' = [item EXCEPT ![b] = EnterBatch(n)]
    /\ tpc' = [tpc EXCEPT ![b] = "gather"]
    /\ UNCHANGED <<max_concurrent, sem, options, must_cancel, completion,
                   response, jobs, running_tasks, cancel_log, blocked, pv, retry,
                   rm, tc, ck, mg, ft, wf, clock>>

\* process_batch returns to the request handler.
SyncReturn(b) ==
    /\ ~blocked
    /\ kind[b] = "sync"
    /\ tpc[b] = "gather"
    /\ AllDone(b)
    /\ response' = [response EXCEPT ![b] = Some(AnalysisResponse(b))]
    /\ tpc' = [tpc EXCEPT ![b] = "done"]
    /\ UNCHANGED <<max_concurrent, sem, kind, urls, options, must_cancel, item,
                   completion, jobs, running_tasks, cancel_log, blocked, pv, retry,
                   rm, tc, ck, mg, ft, wf, clock>>

\* ----------------------------------------------------- process_with_retry
\* process_with_retry is called, lines 184-190: it awaits process_batch for
\* all the urls.  retry_failed and max_retries are the processor's config as
\* this call reads it; invocations counts, per index, the
\* _process_single_video coroutines made for the url, each of which invokes
\* process_video once.
RetryCall(b, n, retry_failed, max_retries) ==
    /\ ~blocked
    /\ kind[b] = "none"
    /\ \A a \in Batches : a < b => kind[a] # "none"
    /\ kind' = [kind EXCEPT ![b] = "retry"]
    /\ urls' = [urls EXCEPT ![b] = UrlList(b, n)]
    /\ item' = [item EXCEPT ![b] = EnterBatch(n)]
    /\ tpc' = [tpc EXCEPT ![b] = "gather"]
    /\ retry' = [retry EXCEPT ![b] =
           [retry_failed |-> retry_failed, max_retries |-> max_retries,
            failed_urls |-> <<>>, retry_attempt |-> 0,
            invocations |-> [i \in 1..n |-> 1]]]
    /\ UNCHANGED <<max_concurrent, sem, options, must_cancel, completion,
                   response, jobs, running_tasks, cancel_log, blocked, pv,
                   rm, tc, ck, mg, ft, wf, clock>>

\* Lines 193-196: the indexes of the results with status error, in order.
FailedUrls(results) ==
    SelectSeq([i \in 1..Len(results) |-> i],
              LAMBDA i : results[i].status = "error")

\* A loop that runs one round more than max_retries.
RoundsLeftOneMore(retry_attempt, max_retries) == retry_attempt <= max_retries

\* Line 201, `for retry_attempt in range(max_retries)`: whether the loop has
\* an iteration left after retry_attempt rounds.
RoundsLeft(retry_attempt, max_retries) == retry_attempt < max_retries

\* Lines 198-214: whether a round is started with these failed urls.
StartsRound(r, failed_urls) ==
    /\ failed_urls # <<>>
    /\ RoundsLeft(r.retry_attempt, r.max_retries)

InSeq(x, q) == \E k \in 1..Len(q) : q[k] = x

\* Lines 208-214: a coroutine is made for each failed url and gather makes
\* tasks of them.
RetryTasks(its, failed_urls) ==
    [k \in 1..Len(its) |->
        IF InSeq(k, failed_urls) THEN Item("waiting", Nil, FALSE) ELSE its[k]]

NextRound(r, failed_urls) ==
    [r EXCEPT !.failed_urls = failed_urls,
              !.retry_attempt = @ + 1,
              !.invocations = [k \in DOMAIN @ |->
                  IF InSeq(k, failed_urls) THEN @[k] + 1 ELSE @[k]]]

\* What process_with_retry does when it has the results of a pass and the
\* urls that still fail: the next round, or the return of the response.
AfterPass(b, failed_urls) ==
    IF retry[b].retry_failed /\ StartsRound(retry[b], failed_urls)
    THEN /\ item' = [item EXCEPT ![b] = RetryTasks(item[b], failed_urls)]
         /\ retry' = [retry EXCEPT ![b] = NextRound(@, failed_urls)]
         /\ UNCHANGED tpc
    ELSE /\ retry' = [retry EXCEPT ![b].failed_urls = failed_urls]
         /\ tpc' = [tpc EXCEPT ![b] = "done"]
         /\ UNCHANGED item

\* Lines 184-201: process_batch returned its response for the first pass.
FirstPassReturn(b) ==
    /\ ~blocked
    /\ kind[b] = "retry"
    /\ tpc[b] = "gather"
    /\ retry[b].retry_attempt = 0
    /\ AllDone(b)
    /\ response' = [response EXCEPT ![b] = Some(AnalysisResponse(b))]
    /\ AfterPass(b, IF retry[b].retry_failed
                    THEN FailedUrls(AnalysisResponse(b).results) ELSE <<>>)
    /\ UNCHANGED <<max_concurrent, sem, kind, urls, options, must_cancel,
                   completion, jobs, running_tasks, cancel_log, blocked, pv,
                   rm, tc, ck, mg, ft, wf, clock>>

\* An update that keeps the counters as they were.
ReplaceResultOnly(resp, idx, result) == [resp EXCEPT !.results[idx] = result]

\* Lines 225-227: the result is replaced and the counters are adjusted.
ReplaceResult(resp, idx, result) ==
    [resp EXCEPT !.results[idx] = result,
                 !.succeeded = @ + 1,
                 !.failed = @ - 1]

\* An update at the position of the task among the retried ones.
RetryTargetPosition(k, original_index) == k

\* Line 225: the index of response.results that a retry's result replaces,
\* for the k-th retried task, made for the url at original_index.
RetryTarget(k, original_index) == original_index

\* Lines 218-231: the results of the retried tasks, in the order of
\* failed_urls, from the k-th on.
RECURSIVE UpdateResults(_, _, _, _)
UpdateResults(resp, failed_urls, its, k) ==
    IF k > Len(failed_urls) THEN resp
    ELSE LET original_index == failed_urls[k]
             it == its[original_index]
         IN  UpdateResults(
                 IF it.success
                 THEN ReplaceResult(resp, RetryTarget(k, original_index),
                                    Get(it.result))
                 ELSE resp,
                 failed_urls, its, k + 1)

\* Lines 221, 230: the urls whose retry failed again.
NewFailedUrls(failed_urls, its) ==
    SelectSeq(failed_urls, LAMBDA idx : ~its[idx].success)

\* Lines 214-239: the gather of a retry round returned.
RetryRoundReturn(b) ==
    /\ ~blocked
    /\ kind[b] = "retry"
    /\ tpc[b] = "gather"
    /\ retry[b].retry_attempt > 0
    /\ AllDone(b)
    /\ response' = [response EXCEPT ![b] =
           Some(UpdateResults(Get(@), retry[b].failed_urls, item[b], 1))]
    /\ AfterPass(b, NewFailedUrls(retry[b].failed_urls, item[b]))
    /\ UNCHANGED <<max_concurrent, sem, kind, urls, options, must_cancel,
                   completion, jobs, running_tasks, cancel_log, blocked, pv,
                   rm, tc, ck, mg, ft, wf, clock>>

\* -------------------------------------------------------------- JobManager
\* create_job, lines 44-63: the record is stored as pending, the task of
\* _process_job is created (it has not run yet) and stored; nothing is
\* awaited, the job id is returned.
CreateJob(b, n, opts) ==
    /\ ~blocked
    /\ kind[b] = "none"
    /\ \A a \in Batches : a < b => kind[a] # "none"
    /\ max_concurrent = DefaultMaxConcurrent  \* default_batch_processor
    /\ kind' = [kind EXCEPT ![b] = "job"]
    /\ urls' = [urls EXCEPT ![b] = UrlList(b, n)]
    /\ options' = [options EXCEPT ![b] = opts]
    /\ jobs' = Put(jobs, b, JobStatus("pending", Nil, Nil, Nil))
    /\ running_tasks' = running_tasks \cup {b}
    /\ tpc' = [tpc EXCEPT ![b] = "scheduled"]
    /\ UNCHANGED <<max_concurrent, sem, must_cancel, item, completion,
                   response, cancel_log, blocked, pv, retry,
                   rm, tc, ck, mg, ft, wf, clock>>

\* A _process_job that leaves the record as create_job made it.
StartedStatusPending == "pending"

\* The status _process_job gives the record in its first step, line 122.
StartedStatus == "running"

\* _process_job, lines 119-131: the first step of the task sets the record
\* running and enters process_batch.  A task cancelled before its first
\* step never runs: none of its code, handlers included, is executed.
JobStart(b) ==
    /\ ~blocked
    /\ tpc[b] = "scheduled"
    /\ IF CancelRequested(b)
       THEN /\ tpc' = [tpc EXCEPT ![b] = "done"]
            /\ UNCHANGED <<jobs, item>>
       ELSE /\ jobs' = [jobs EXCEPT ![b].status = StartedStatus]
            /\ item' = [item EXCEPT ![b] = EnterBatch(Len(urls[b]))]
            /\ tpc' = [tpc EXCEPT ![b] = "gather"]
    /\ UNCHANGED <<max_concurrent, sem, kind, urls, options, must_cancel,
                   completion, response, running_tasks, cancel_log, blocked,
                   pv, retry,
                   rm, tc, ck, mg, ft, wf, clock>>

\* A _process_job without its finally clause.
KeepTask(tasks, job_id) == tasks

\* _process_job, lines 162-165: the finally clause drops the task handle.
DropTask(tasks, job_id) == tasks \ {job_id}

\* A handler that records the error and leaves the status as it is.
JobErrorStatusRunning == "running"

\* The status the handler of lines 151-160 gives the record, line 154.
JobErrorStatus == "failed"

\* _process_job, lines 133-138 and 162-165: process_batch returned.
\* Lines 151-160: process_batch raised (building the response reads
\* options.provider, which raises when the request has no options).
JobComplete(b) ==
    /\ ~blocked
    /\ kind[b] = "job"
    /\ tpc[b] = "gather"
    /\ ~CancelRequested(b)
    /\ AllDone(b)
    /\ IF options[b]
       THEN /\ response' = [response EXCEPT ![b] = Some(AnalysisResponse(b))]
            /\ jobs' = [jobs EXCEPT ![b] =
                   JobStatus("completed", Some(clock), response'[b], @.error)]
       ELSE /\ jobs' = [jobs EXCEPT ![b] =
                   JobStatus(JobErrorStatus, Some(clock), @.result,
                             Some(ErrorInfo("JOB_ERROR", "exception")))]
            /\ UNCHANGED response
    /\ running_tasks' = DropTask(running_tasks, b)
    /\ tpc' = [tpc EXCEPT ![b] = "done"]
    /\ UNCHANGED <<max_concurrent, sem, kind, urls, options, must_cancel, item,
                   completion, cancel_log, blocked, pv, retry,
                   rm, tc, ck, mg, ft, wf, clock>>

\* _process_job, lines 140-149 and 162-165: the CancelledError reaches the
\* task once everything it awaits has ended.  The handler looks the record
\* up again; had cleanup_old_jobs removed it, the lookup raises and only the
\* finally clause acts.
JobCancelled(b) ==
    /\ ~blocked
    /\ kind[b] = "job"
    /\ tpc[b] = "gather"
    /\ CancelRequested(b)
    /\ \A i \in Indexes(b) : Finished(item[b][i])
    /\ IF b \in DOMAIN jobs
       THEN jobs' = [jobs EXCEPT ![b] =
                JobStatus("failed", Some(clock), @.result,
                          Some(ErrorInfo("JOB_CANCELLED", "Job was cancelled")))]
       ELSE UNCHANGED jobs  \* self.jobs[job_id] raises KeyError, line 142
    /\ running_tasks' = DropTask(running_tasks, b)
    /\ tpc' = [tpc EXCEPT ![b] = "done"]
    /\ UNCHANGED <<max_concurrent, sem, kind, urls, options, must_cancel, item,
                   completion, response, cancel_log, blocked>>
    /\ UNCHANGED <<pv, retry, rm, tc, ck, mg, ft, wf, clock>>

\* A cancel_job that refuses completed jobs only.
IsTerminalCompletedOnly(status) == status = "completed"

\* A cancel_job that refuses failed jobs only.
IsTerminalFailedOnly(status) == status = "failed"

\* Whether cancel_job refuses a job in this status, lines 91-92.
IsTerminal(status) == status \in {"completed", "failed"}

\* What a call of cancel_job returned: True at line 109, False at lines 88
\* ("not_found") and 92 ("refused").
ReturnedTrue(entry) == entry = "cancelled"

RECURSIVE SumLen(_, _)
SumLen(f, S) ==
    IF S = {} THEN 0
    ELSE LET x == CHOOSE y \in S : TRUE IN Len(f[x]) + SumLen(f, S \ {x})

\* The calls of cancel_job made so far.
CancelCalls == SumLen(cancel_log, Batches)

\* cancel_job, lines 87-109.
CancelJob(b) ==
    /\ ~blocked
    /\ CancelCalls < MaxCancels
    /\ IF b \notin DOMAIN jobs
       THEN /\ cancel_log' = [cancel_log EXCEPT ![b] = Append(@, "not_found")]
            /\ UNCHANGED <<must_cancel, running_tasks, jobs>>
       ELSE IF IsTerminal(jobs[b].status)
       THEN /\ cancel_log' = [cancel_log EXCEPT ![b] = Append(@, "refused")]
            /\ UNCHANGED <<must_cancel, running_tasks, jobs>>
       ELSE /\ must_cancel' = [must_cancel EXCEPT ![b] =
                   @ \/ b \in running_tasks]
            /\ running_tasks' = running_tasks \ {b}
            /\ jobs' = [jobs EXCEPT ![b] =
                   JobStatus("failed", Some(clock), @.result,
                       Some(ErrorInfo("JOB_CANCELLED",
                                      "Job was cancelled by user")))]
            /\ cancel_log' = [cancel_log EXCEPT ![b] = Append(@, "cancelled")]
    /\ UNCHANGED <<max_concurrent, sem, kind, urls, options, tpc, item,
                   completion, response, blocked, pv, retry,
                   rm, tc, ck, mg, ft, wf, clock>>

\* The steps of the program: requests arrive, the event loop runs the tasks.
Next ==
    \/ \E b \in Batches, n \in 1..MaxUrls : SubmitSync(b, n)
    \/ \E b \in Batches, n \in 1..MaxUrls, opts \in BOOLEAN : CreateJob(b, n, opts)
    \/ \E b \in Batches : CancelJob(b)
    \/ \E b \in Batches : JobStart(b)
    \/ \E b \in Batches, i \in 1..MaxUrls : Acquire(b, i)
    \/ \E b \in Batches, i \in 1..MaxUrls : StartVideo(b, i, {"no"})
    \/ \E b \in Batches, i \in 1..MaxUrls : FinishVideo(b, i)
    \/ \E b \in Batches, i \in 1..MaxUrls : Timeout(b, i)
    \/ \E b \in Batches, i \in 1..MaxUrls : ItemCancel(b, i)
    \/ \E b \in Batches : SyncReturn(b)
    \/ \E b \in Batches : JobComplete(b)
    \/ \E b \in Batches : JobCancelled(b)

Spec == Init /\ [][Next]_vars

\* ------------------------------------------------- a batch with a hanging item
\* Requests that await process_batch, with items whose pipeline may never
\* complete: suspended for ever in an await, or inside a synchronous call.
HangNext ==
    \/ \E b \in Batches, n \in 1..MaxUrls : SubmitSync(b, n)
    \/ \E b \in Batches, i \in 1..MaxUrls : Acquire(b, i)
    \/ \E b \in Batches, i \in 1..MaxUrls :
          StartVideo(b, i, {"no", "await", "sync"})
    \/ \E b \in Batches, i \in 1..MaxUrls : FinishVideo(b, i)
    \/ \E b \in Batches, i \in 1..MaxUrls : Timeout(b, i)
    \/ \E b \in Batches : SyncReturn(b)

HangSpec == Init /\ [][HangNext]_vars

\* The event loop runs every task that is ready and fires every timer that
\* is due, as long as it runs at all; requests arrive or not.
LoopFairness ==
    /\ \A b \in Batches, i \in 1..MaxUrls :
          /\ WF_vars(Acquire(b, i))
          /\ WF_vars(StartVideo(b, i, {"no", "await", "sync"}))
          /\ WF_vars(FinishVideo(b, i) \/ Timeout(b, i))
    /\ \A b \in Batches : WF_vars(SyncReturn(b))

FairHangSpec == HangSpec /\ LoopFairness

\* The same batches when an item can hang in an await only.
AwaitHangNext ==
    \/ \E b \in Batches, n \in 1..MaxUrls : SubmitSync(b, n)
    \/ \E b \in Batches, i \in 1..MaxUrls : Acquire(b, i)
    \/ \E b \in Batches, i \in 1..MaxUrls : StartVideo(b, i, {"no", "await"})
    \/ \E b \in Batches, i \in 1..MaxUrls : FinishVideo(b, i)
    \/ \E b \in Batches, i \in 1..MaxUrls : Timeout(b, i)
    \/ \E b \in Batches : SyncReturn(b)

FairAwaitHangSpec == Init /\ [][AwaitHangNext]_vars /\ LoopFairness

\* ------------------------------------------- one batch of up to three urls
\* One request that awaits process_batch, any outcome of the metadata fetch.
ExampleUrls == 3

ExampleStart(i) ==
    \E o2 \in MetadataOutcomes :
        StartVideoOutcome(1, i, "id", o2, TranscriptOk({"en"}),
                          Chunked({"en"}), "no")

ExampleNext ==
    \/ \E n \in 1..ExampleUrls : SubmitSync(1, n)
    \/ \E i \in 1..ExampleUrls : Acquire(1, i)
    \/ \E i \in 1..ExampleUrls : ExampleStart(i)
    \/ \E i \in 1..ExampleUrls : FinishVideo(1, i)
    \/ \E i \in 1..ExampleUrls : Timeout(1, i)
    \/ SyncReturn(1)

ExampleSpec == Init /\ [][ExampleNext]_vars

\* ------------------------------------- a batch with an item that raises
\* Requests that await process_batch, with items whose invocation may raise
\* an unexpected exception.
FaultNext ==
    \/ \E b \in Batches, n \in 1..MaxUrls : SubmitSync(b, n)
    \/ \E b \in Batches, i \in 1..MaxUrls : Acquire(b, i)
    \/ \E b \in Batches, i \in 1..MaxUrls : StartVideo(b, i, {"no"})
    \/ \E b \in Batches, i \in 1..MaxUrls : VideoRaises(b, i)
    \/ \E b \in Batches, i \in 1..MaxUrls : FinishVideo(b, i)
    \/ \E b \in Batches, i \in 1..MaxUrls : Timeout(b, i)
    \/ \E b \in Batches : SyncReturn(b)

FaultSpec == Init /\ [][FaultNext]_vars

\* ------------------------------------------------------------ RetryManager
\* The base_delay values of the managers.
BaseDelays == {1, 3}

\* What one call of func does: it returns a value or raises an exception.
FuncOutcomes ==
    [ok : {TRUE}, value : {"r1", "r2"}, error : {None}]
        \cup [ok : {FALSE}, value : {None}, error : {"e1", "e2"}]

RECURSIVE Pow2(_)
Pow2(n) == IF n = 0 THEN 1 ELSE 2 * Pow2(n - 1)

\* A loop that runs once more than max_retries.
InRangeOneMore(attempt, max_retries) == attempt <= max_retries

\* utils.py line 100: for attempt in range(self.max_retries).
InRange(attempt, max_retries) == attempt < max_retries

\* utils.py line 106: a further attempt follows this one.
SleepsAfter(attempt, max_retries) == attempt < max_retries - 1

\* A delay that doubles once too early.
BackoffDelayNext(base_delay, attempt) == base_delay * Pow2(attempt + 1)

\* utils.py line 107: delay = self.base_delay * (2 ** attempt).
BackoffDelay(base_delay, attempt) == base_delay * Pow2(attempt)

\* The loop of line 100 takes its next value, or ends and line 113 raises
\* last_exception; `raise None` is a TypeError.
LoopStep(r, attempt) ==
    IF InRange(attempt, r.max_retries)
    THEN [r EXCEPT !.attempt = attempt, !.pc = "calling"]
    ELSE [r EXCEPT !.pc = "raised",
                   !.raised = IF r.last_exception = None THEN "TypeError"
                              ELSE r.last_exception]

\* execute_with_retry is called, lines 98-100.
RmCall(max_retries, base_delay) ==
    /\ rm.pc \in {"idle", "returned", "raised"}
    /\ rm' = LoopStep(NewRetryCall(max_retries, base_delay), 0)
    /\ UNCHANGED <<other_vars, tc, ck, mg, ft, wf>>

\* Lines 101-111: func is awaited; its value is returned, or its exception is
\* kept and, when a further attempt follows, the sleep begins.
Attempted(r, o) ==
    LET called == [r EXCEPT !.calls = Append(@, o)]
    IN  IF o.ok
        THEN [called EXCEPT !.pc = "returned", !.result = o.value]
        ELSE LET failed == [called EXCEPT !.last_exception = o.error]
             IN  IF SleepsAfter(r.attempt, r.max_retries)
                 THEN [failed EXCEPT
                         !.pc = "sleeping",
                         !.sleeps = Append(@,
                            [after |-> Len(called.calls),
                             delay |-> BackoffDelay(r.base_delay, r.attempt)])]
                 ELSE LoopStep(failed, r.attempt + 1)

\* func is awaited in a call of execute_with_retry and returns or raises.
RmAttempt(o) ==
    /\ rm.pc = "calling"
    /\ rm' = Attempted(rm, o)
    /\ UNCHANGED <<other_vars, tc, ck, mg, ft, wf>>

\* Line 109: asyncio.sleep(delay) is over; the loop goes on.
RmWake ==
    /\ rm.pc = "sleeping"
    /\ rm' = LoopStep(rm, rm.attempt + 1)
    /\ UNCHANGED <<other_vars, tc, ck, mg, ft, wf>>

RetryManagerInit ==
    /\ Init
    /\ max_concurrent = 1

RetryManagerNext ==
    \/ \E max_retries \in 0..MaxAttempts, base_delay \in BaseDelays :
          RmCall(max_retries, base_delay)
    \/ \E o \in FuncOutcomes : RmAttempt(o)
    \/ RmWake

RetryManagerSpec == RetryManagerInit /\ [][RetryManagerNext]_vars

\* --------------------------------------------------------- TranscriptCache
\* A lock anybody may take at any time.
LockFreeAlways(lock) == TRUE

\* cache.py lines 34 and 55: `with self._lock` enters when nobody holds it.
LockFree(lock) == lock = 0

\* An entry that is dropped as soon as its age reaches the ttl.
ExpiredAtTtl(now, timestamp, ttl) == now - timestamp >= ttl

\* cache.py line 41: time.time() - timestamp > self._ttl.
Expired(now, timestamp, ttl) == now - timestamp > ttl

\* The tuple of cache.py line 56.
CacheEntry(transcript_lines, timestamp) ==
    [lines |-> transcript_lines, timestamp |-> timestamp]

\* time.time() moves on; nothing sweeps the cache.
Tick ==
    /\ tc.now < MaxTime
    /\ tc' = [tc EXCEPT !.now = @ + 1]
    /\ UNCHANGED <<other_vars, rm, ck, mg, ft, wf>>

\* transcript_fetcher.py lines 338-342: fetch_transcript(video_id) is called
\* and reaches cache.get_transcript.
FtCall(t, v) ==
    /\ tc.th[t].pc \in {"idle", "returned", "raised"}
    /\ tc' = [tc EXCEPT !.th[t] = [IdleThread EXCEPT !.pc = "get_wait",
                                                     !.video_id = v]]
    /\ UNCHANGED <<other_vars, rm, ck, mg, ft, wf>>

\* cache.py lines 34 and 55: the caller takes the lock.
CacheLock(t) ==
    /\ tc.th[t].pc \in {"get_wait", "set_wait"}
    /\ LockFree(tc.lock)
    /\ tc' = [tc EXCEPT !.lock = t,
                        !.th[t].pc = IF @ = "get_wait" THEN "get_locked"
                                     ELSE "set_locked"]
    /\ UNCHANGED <<other_vars, rm, ck, mg, ft, wf>>

\* cache.py lines 35-45 under the lock, then transcript_fetcher.py lines
\* 343-345: a cached transcript is returned, otherwise it is produced.
GetTranscript(t) ==
    /\ tc.th[t].pc = "get_locked"
    /\ LET v == tc.th[t].video_id
           entry == tc.cache[v]
       IN  IF entry = Nil
           THEN tc' = [tc EXCEPT !.lock = 0, !.th[t].pc = "youtube",
                                 !.th[t].calls = <<Attempt("cache", FALSE)>>]
           ELSE IF Expired(tc.now, Get(entry).timestamp, Ttl)
           THEN tc' = [tc EXCEPT !.cache[v] = Nil, !.lock = 0,
                                 !.th[t].pc = "youtube",
                                 !.th[t].calls = <<Attempt("cache", FALSE)>>]
           ELSE tc' = [tc EXCEPT !.lock = 0,
                                 !.th[t].got = Some(Get(entry).lines),
                                 !.th[t].result = Some(Get(entry).lines),
                                 !.th[t].pc = "returned",
                                 !.th[t].calls = <<Attempt("cache", TRUE)>>]
    /\ UNCHANGED <<other_vars, rm, ck, mg, ft, wf>>

\* transcript_fetcher.py line 339: the default lang_priority; the attempt
\* without a language code is the auto-detected one.
LangPriority == <<"en", "es">>
YoutubeSources == {"en", "es", "auto"}

\* What the YouTube API does for a video: constructing the client raises, or
\* get_transcript gives lines for the languages in avail and raises (or gives
\* no lines) for the others.
ApiOutcomes ==
    {[raise |-> FALSE, avail |-> a] : a \in SUBSET YoutubeSources}
        \cup {[raise |-> TRUE, avail |-> {}]}

\* A loop that goes on to the next language whatever it got.
FoundNever(transcript_lines) == FALSE

\* transcript_fetcher.py lines 375-376: `if transcript_lines: return`.
Found(transcript_lines) == transcript_lines

\* transcript_fetcher.py lines 373-379: the preferred languages in priority
\* order, then the auto-detected language; tried are the attempts made.
RECURSIVE fetch_for_languages(_, _, _)
fetch_for_languages(langs, avail, tried) ==
    IF langs = <<>>
    THEN [tried |-> Append(tried, Attempt("auto", "auto" \in avail)),
          found |-> "auto" \in avail]
    ELSE LET transcript_lines == Head(langs) \in avail
             attempted == Append(tried, Attempt(Head(langs), transcript_lines))
         IN  IF Found(transcript_lines)
             THEN [tried |-> attempted, found |-> TRUE]
             ELSE fetch_for_languages(Tail(langs), avail, attempted)

\* transcript_fetcher.py lines 367-383: _try_youtube_api; an exception
\* outside the attempts gives None.
try_youtube_api(lang_priority, o) ==
    IF o.raise THEN [tried |-> <<>>, found |-> FALSE]
    ELSE fetch_for_languages(lang_priority, o.avail, <<>>)

\* transcript_fetcher.py lines 348-351: the YouTube API gives the lines, which
\* are then stored, or nothing.
TryYoutubeApi(t, o) ==
    /\ tc.th[t].pc = "youtube"
    /\ LET r == try_youtube_api(LangPriority, o)
           calls == tc.th[t].calls \o r.tried
       IN  tc' = IF r.found
                 THEN [tc EXCEPT !.th[t].lines = Some(t),
                                 !.th[t].pc = "set_wait",
                                 !.th[t].calls = calls]
                 ELSE [tc EXCEPT !.th[t].pc = "whisper",
                                 !.th[t].calls = calls]
    /\ UNCHANGED <<other_vars, rm, ck, mg, ft, wf>>

\* transcript_fetcher.py lines 354-365: Whisper gives the lines, which are
\* then stored, or fails and TranscriptUnavailableError is raised.
WhisperFallback(t, transcribed) ==
    /\ tc.th[t].pc = "whisper"
    /\ tc' = IF transcribed
             THEN [tc EXCEPT !.th[t].lines = Some(t), !.th[t].pc = "set_wait",
                             !.th[t].calls =
                                 Append(@, Attempt("whisper", TRUE))]
             ELSE [tc EXCEPT !.th[t].pc = "raised",
                             !.th[t].calls =
                                 Append(@, Attempt("whisper", FALSE))]
    /\ UNCHANGED <<other_vars, rm, ck, mg, ft, wf>>

\* cache.py line 56 under the lock, then transcript_fetcher.py lines 351 and
\* 360: the lines are stored with the time of the call and returned.
SetTranscript(t) ==
    /\ tc.th[t].pc = "set_locked"
    /\ tc' = [tc EXCEPT
                !.cache[tc.th[t].video_id] =
                    Some(CacheEntry(Get(tc.th[t].lines), tc.now)),
                !.lock = 0,
                !.th[t].result = tc.th[t].lines,
                !.th[t].pc = "returned"]
    /\ UNCHANGED <<other_vars, rm, ck, mg, ft, wf>>

CacheInit ==
    /\ Init
    /\ max_concurrent = 1

CacheNext ==
    \/ Tick
    \/ \E t \in Threads, v \in VideoIds : FtCall(t, v)
    \/ \E t \in Threads : CacheLock(t)
    \/ \E t \in Threads : GetTranscript(t)
    \/ \E t \in Threads, o \in ApiOutcomes : TryYoutubeApi(t, o)
    \/ \E t \in Threads, transcribed \in BOOLEAN : WhisperFallback(t, transcribed)
    \/ \E t \in Threads : SetTranscript(t)

CacheSpec == CacheInit /\ [][CacheNext]_vars

\* ------------------------------------- TranscriptFetcher.fetch_transcripts
\* The transcripts YouTube lists for a video: manual or generated, in a
\* supported language or another one.
MaxListed == 2
ListedTranscript(is_generated, language_code) ==
    [is_generated |-> is_generated, language_code |-> language_code]
ListedTranscripts ==
    {ListedTranscript(g, l) : g \in BOOLEAN, l \in {"en", "fr"}}
ListOutcomes ==
    {[raise |-> FALSE, list |-> l] :
        l \in UNION {[1..n -> ListedTranscripts] : n \in 0..MaxListed}}
        \cup {[raise |-> TRUE, list |-> <<>>]}
\* transcript_fetcher.py line 35.
SupportedLanguages == {"en", "es"}
\* audio_downloader.py lines 68-162 and whisper_transcriber.py: what the
\* download and the transcription return.
DownloadOutcomes == {"ok", "DOWNLOAD_FAILED", "VIDEO_UNAVAILABLE"}
TranscribeOutcomes == {"ok", "RATE_LIMIT", "nothing"}

\* The first transcript of the list that is one of those wanted, if any.
FirstWhere(transcript_list, wanted) ==
    LET hits == {i \in 1..Len(transcript_list) : transcript_list[i] \in wanted}
    IN  IF hits = {} THEN Nil
        ELSE Some(transcript_list[CHOOSE i \in hits : \A k \in hits : i <= k])

\* transcript_fetcher.py lines 198-238: _select_best_transcript.
select_best_transcript(transcript_list, preferred_languages) ==
    LET listed == {transcript_list[i] : i \in 1..Len(transcript_list)}
        Manual == {t \in listed : ~t.is_generated
                                    /\ t.language_code \in preferred_languages}
        Auto == {t \in listed : t.is_generated
                                  /\ t.language_code \in preferred_languages}
        AnyManual == {t \in listed : ~t.is_generated}
    IN  IF transcript_list = <<>> THEN Nil
        ELSE IF FirstWhere(transcript_list, Manual) # Nil
        THEN FirstWhere(transcript_list, Manual)
        ELSE IF FirstWhere(transcript_list, Auto) # Nil
        THEN FirstWhere(transcript_list, Auto)
        ELSE IF FirstWhere(transcript_list, AnyManual) # Nil
        THEN FirstWhere(transcript_list, AnyManual)
        ELSE FirstWhere(transcript_list, listed)

\* models.py lines 103-109: Transcripts, by the source and the language of
\* its transcript ("none" when transcript is None).
TranscriptsOf(source, language) == [source |-> source, language |-> language]
NoTranscript == TranscriptsOf("none", "none")

\* The return of fetch_transcripts: (transcripts, error).
FtsReturn(f, transcripts, error) ==
    [f EXCEPT !.pc = "returned", !.transcripts = transcripts, !.error = error]

\* transcript_fetcher.py lines 83-122: the branch of a list without a best
\* transcript.  The download, then (finally: cleanup) the transcription; every
\* failure is caught at line 113 and the transcripts are returned empty.
WhisperBlock(f, download, transcribe) ==
    IF ~f.use_whisper_fallback THEN FtsReturn(f, Some(NoTranscript), None)
    ELSE IF download # "ok"
    THEN FtsReturn([f EXCEPT !.downloads = @ + 1], Some(NoTranscript), None)
    ELSE LET g == [f EXCEPT !.downloads = @ + 1, !.transcribed = @ + 1,
                            !.cleanups = @ + 1]
         IN  IF transcribe # "ok" THEN FtsReturn(g, Some(NoTranscript), None)
             ELSE FtsReturn(g, Some(TranscriptsOf("whisper", "en")), None)

\* transcript_fetcher.py lines 432-472: _whisper_fallback_transcribe, which
\* downloads and transcribes and deletes no file; lines or nothing.
whisper_fallback_transcribe(f, download, transcribe) ==
    IF download # "ok" THEN [f EXCEPT !.downloads = @ + 1]
    ELSE [f EXCEPT !.downloads = @ + 1, !.transcribed = @ + 1]

\* fetch_transcripts(url) is called on a fetcher, lines 54-65: without a
\* video id it returns INVALID_URL.
FtsCall(use_whisper_fallback, o1) ==
    /\ ft.pc \in {"idle", "returned"}
    /\ ft' = IF o1 = "none"
             THEN FtsReturn([NoFetch EXCEPT !.use_whisper_fallback =
                                               use_whisper_fallback],
                            Nil, "INVALID_URL")
             ELSE [NoFetch EXCEPT !.pc = "list",
                                  !.use_whisper_fallback = use_whisper_fallback]
    /\ UNCHANGED <<other_vars, rm, tc, ck, mg, wf>>

\* transcript_fetcher.py lines 68-122 and 178-196: the transcripts are
\* listed, a failure of the listing is returned as the error it is, and the
\* best transcript is selected.
FtsList(o, download, transcribe) ==
    /\ ft.pc = "list"
    /\ LET f == [ft EXCEPT !.transcript_list =
                              IF o.raise THEN Nil ELSE Some(o.list),
                          !.lang_error =
                              IF o.raise THEN "TRANSCRIPT_LIST_ERROR" ELSE None]
           best == select_best_transcript(o.list, SupportedLanguages)
       IN  ft' = IF o.raise
                 THEN FtsReturn(f, Nil, f.lang_error)
                 ELSE IF o.list = <<>>
                 THEN FtsReturn(f, Nil, "NO_TRANSCRIPTS")
                 ELSE IF best = Nil
                 THEN WhisperBlock(f, download, transcribe)
                 ELSE [f EXCEPT !.pc = "content", !.best = best]
    /\ UNCHANGED <<other_vars, rm, tc, ck, mg, wf>>

\* transcript_fetcher.py lines 124-164 and 240-272: the content of the best
\* transcript is fetched; when that fails and the fallback is enabled the
\* lines come from _whisper_fallback_transcribe, under the source and the
\* language of the best transcript.
FtsContent(content_ok, download, transcribe) ==
    /\ ft.pc = "content"
    /\ LET best == Get(ft.best)
           found == Some(TranscriptsOf(IF best.is_generated THEN "auto"
                                       ELSE "manual", best.language_code))
       IN  ft' = IF content_ok THEN FtsReturn(ft, found, None)
                 ELSE IF ~ft.use_whisper_fallback
                 THEN FtsReturn(ft, Some(NoTranscript), None)
                 ELSE FtsReturn(
                          whisper_fallback_transcribe(ft, download, transcribe),
                          IF download = "ok" /\ transcribe = "ok"
                          THEN found ELSE Some(NoTranscript),
                          None)
    /\ UNCHANGED <<other_vars, rm, tc, ck, mg, wf>>

FetcherInit ==
    /\ Init
    /\ max_concurrent = 1

FetcherNext ==
    \/ \E w \in BOOLEAN, o1 \in VideoIdOutcomes : FtsCall(w, o1)
    \/ \E o \in ListOutcomes, d \in DownloadOutcomes, t \in TranscribeOutcomes :
          FtsList(o, d, t)
    \/ \E c \in BOOLEAN, d \in DownloadOutcomes, t \in TranscribeOutcomes :
          FtsContent(c, d, t)

FetcherSpec == FetcherInit /\ [][FetcherNext]_vars

\* -------------------------------------------------------- TranscriptChunker
\* A text is followed by its number of words (text.split()) and its length;
\* a segment text is taken stripped: the blank one, one short word, one long
\* word, two words, a sentence.
SegmentTexts ==
    {[words |-> 0, chars |-> 0], [words |-> 1, chars |-> 1],
     [words |-> 1, chars |-> 4], [words |-> 2, chars |-> 3],
     [words |-> 8, chars |-> 15]}

Languages == {"en", "zh"}
MaxTokensValues == {11, 12, 22, 30}
MaxCharsValues == {3, 6, 100}

\* The transcripts: each segment with its position in the input.
Transcripts ==
    UNION {[1..n -> SegmentTexts] : n \in 0..MaxSegments}
Segment(i, text) == [id |-> i, words |-> text.words, chars |-> text.chars]
Segments(texts) == [i \in 1..Len(texts) |-> Segment(i, texts[i])]

\* transcript_chunker.py lines 200-211 and 231: the multiplier, in tenths.
LanguageMultiplier10(language) ==
    IF language = "en" THEN 13 ELSE IF language = "zh" THEN 20 ELSE 13

\* An estimator without the base overhead of line 234.
estimate_tokens_no_overhead(text, language) ==
    IF text.chars = 0 THEN 0
    ELSE LET estimated_tokens ==
                 (text.words * LanguageMultiplier10(language)) \div 10
         IN  IF estimated_tokens > 1 THEN estimated_tokens ELSE 1

\* transcript_chunker.py lines 224-236: TokenEstimator.estimate_tokens, with
\* int(words * multiplier) computed in tenths.
estimate_tokens(text, language) ==
    IF text.chars = 0 THEN 0
    ELSE LET estimated_tokens ==
                 ((text.words * LanguageMultiplier10(language)) \div 10) + 10
         IN  IF estimated_tokens > 1 THEN estimated_tokens ELSE 1

\* transcript_chunker.py line 166: ' '.join of the stripped, non-blank texts.
RECURSIVE segments_to_text(_)
segments_to_text(segments) ==
    IF segments = <<>> THEN [words |-> 0, chars |-> 0]
    ELSE LET rest == segments_to_text(Tail(segments))
             head == Head(segments)
         IN  IF head.chars = 0 THEN rest
             ELSE IF rest.chars = 0
             THEN [words |-> head.words, chars |-> head.chars]
             ELSE [words |-> head.words + rest.words,
                   chars |-> head.chars + 1 + rest.chars]

\* transcript_chunker.py lines 80-94 and 149-162: the chunk of the segments.
TranscriptChunk(segments, chunk_index, language) ==
    LET text == segments_to_text(segments)
    IN  [segments |-> segments,
         token_count |-> estimate_tokens(text, language),
         char_count |-> text.chars,
         chunk_index |-> chunk_index]

\* A chunker that looks at the tokens only.
ExceedsTokensOnly(current_tokens, segment_tokens, current_chars, segment_chars, max_tokens, max_chars) ==
    current_tokens + segment_tokens > max_tokens

\* transcript_chunker.py lines 119-120: adding the segment exceeds a limit.
ExceedsLimits(current_tokens, segment_tokens, current_chars, segment_chars, max_tokens, max_chars) ==
    \/ current_tokens + segment_tokens > max_tokens
    \/ current_chars + segment_chars > max_chars

\* transcript_chunker.py lines 102-104: the locals of _create_chunks.
NoCurrent == [segments |-> <<>>, chars |-> 0, tokens |-> 0]

\* transcript_chunker.py lines 106-147: the loop of _create_chunks from
\* segment i on, then the final chunk.
RECURSIVE create_chunks_from(_, _, _, _, _, _, _)
create_chunks_from(segments, i, chunks, current, language, max_tokens, max_chars) ==
    IF i > Len(segments)
    THEN IF current.segments # <<>>
         THEN Append(chunks,
                     TranscriptChunk(current.segments, Len(chunks), language))
         ELSE chunks
    ELSE LET segment == segments[i]
         IN  IF segment.chars = 0
             THEN create_chunks_from(segments, i + 1, chunks, current,
                                     language, max_tokens, max_chars)
             ELSE LET segment_text ==
                          IF current.chars > 0
                          THEN [words |-> segment.words,
                                chars |-> segment.chars + 1]
                          ELSE [words |-> segment.words,
                                chars |-> segment.chars]
                      segment_tokens == estimate_tokens(segment_text, language)
                  IN  IF ExceedsLimits(current.tokens, segment_tokens,
                                       current.chars, segment_text.chars,
                                       max_tokens, max_chars)
                      THEN create_chunks_from(
                               segments, i + 1,
                               IF current.segments # <<>>
                               THEN Append(chunks,
                                           TranscriptChunk(current.segments,
                                                           Len(chunks),
                                                           language))
                               ELSE chunks,
                               [segments |-> <<segment>>,
                                chars |-> segment_text.chars,
                                tokens |-> segment_tokens],
                               language, max_tokens, max_chars)
                      ELSE create_chunks_from(
                               segments, i + 1, chunks,
                               [segments |-> Append(current.segments, segment),
                                chars |-> current.chars + segment_text.chars,
                                tokens |-> current.tokens + segment_tokens],
                               language, max_tokens, max_chars)

\* A chunker without the single-chunk case.
FitsNever(total_tokens, max_tokens) == FALSE

\* transcript_chunker.py line 71: the transcript is small enough.
FitsInOneChunk(total_tokens, max_tokens) == total_tokens <= max_tokens

\* transcript_chunker.py lines 57-78: chunk_transcript.
chunk_transcript(segments, language, max_tokens, max_chars) ==
    IF segments = <<>> THEN <<>>
    ELSE IF FitsInOneChunk(estimate_tokens(segments_to_text(segments),
                                           language), max_tokens)
    THEN <<TranscriptChunk(segments, 0, language)>>
    ELSE create_chunks_from(segments, 1, <<>>, NoCurrent, language,
                            max_tokens, max_chars)

\* chunk_transcript is called on a transcript by a chunker with the given
\* limits, and returns.
ChunkCall(texts, language, max_tokens, max_chars) ==
    /\ ck.pc = "idle"
    /\ ck' = [pc |-> "returned",
              segments |-> Segments(texts),
              language |-> language,
              max_tokens |-> max_tokens,
              max_chars |-> max_chars,
              total_tokens |->
                  estimate_tokens(segments_to_text(Segments(texts)), language),
              chunks |-> chunk_transcript(Segments(texts), language,
                                          max_tokens, max_chars)]
    /\ UNCHANGED <<other_vars, rm, tc, mg, ft, wf>>

ChunkerInit ==
    /\ Init
    /\ max_concurrent = 1

ChunkerNext ==
    \E texts \in Transcripts, language \in Languages,
       max_tokens \in MaxTokensValues, max_chars \in MaxCharsValues :
        ChunkCall(texts, language, max_tokens, max_chars)

ChunkerSpec == ChunkerInit /\ [][ChunkerNext]_vars

\* ------------------------------ a transcript of 25 segments of ~50 tokens
\* The scenario: up to ExampleSegments segments, each of ExampleWords words
\* of five letters (46 to 54 estimated tokens in English), chunked by a
\* chunker with max_tokens = 120 and the max_chars of ChunkingConfig.
ExampleSegments == 25
ExampleWords == 28..34
ExampleLimits == [max_tokens |-> 120, max_chars |-> 8000]
ExampleText(words) == [words |-> words, chars |-> 6 * words - 1]

\* The transcript of n segments whose texts alternate between two lengths.
ExampleTranscript(n, w1, w2) ==
    [i \in 1..n |-> ExampleText(IF i % 2 = 1 THEN w1 ELSE w2)]

ExampleChunkNext ==
    \E n \in 1..ExampleSegments, w1 \in ExampleWords, w2 \in ExampleWords :
        ChunkCall(ExampleTranscript(n, w1, w2), "en",
                  ExampleLimits.max_tokens, ExampleLimits.max_chars)

ExampleChunkSpec == ChunkerInit /\ [][ExampleChunkNext]_vars

\* ----------------------------------------------------- SummarizationService
\* models.py lines 112-130: FrameworkData and SummaryData.  A summary text is
\* the sequence of its paragraphs; insights and moments are numbered texts.
FrameworkData(name, description, steps) ==
    [name |-> name, description |-> description, steps |-> steps]
Paragraph(text, sections) == [text |-> text, sections |-> sections]
SummaryData(summary, key_insights, frameworks, key_moments, topics, bullets, quotes, actions) ==
    [summary |-> summary, key_insights |-> key_insights,
     frameworks |-> frameworks, key_moments |-> key_moments,
     topics |-> topics, bullets |-> bullets, quotes |-> quotes,
     actions |-> actions]

\* What _parse_summary makes of the answers of the LLM to the chunks: a long
\* answer with the legacy fields, a second long one that repeats an insight,
\* a moment and a framework name of the first, one that repeats itself, and a
\* short one whose bullets are its insights.
ParsedSummaries ==
    {SummaryData(<<Paragraph("sA", 0)>>, <<1, 2, 3, 4, 5, 6, 7>>,
                 <<FrameworkData("F", "d1", <<1>>)>>,
                 <<1, 2, 3, 4, 5, 6, 7>>, <<1>>, <<2>>, <<3>>, <<4>>),
     SummaryData(<<Paragraph("sB", 0)>>, <<7, 8, 9, 10, 11, 12, 13, 14>>,
                 <<FrameworkData("F", "d2", <<2>>),
                   FrameworkData("f", "d3", <<3>>)>>,
                 <<7, 8, 9, 10, 11, 12, 13, 14>>, <<>>, <<>>, <<>>, <<>>),
     SummaryData(<<Paragraph("sC", 0)>>, <<1, 1>>,
                 <<FrameworkData("G", "d4", <<4>>),
                   FrameworkData("G", "d5", <<5>>)>>,
                 <<3, 3>>, <<>>, <<1>>, <<>>, <<>>),
     SummaryData(<<Paragraph("sD", 0)>>, <<20>>, <<>>, <<21>>,
                 <<>>, <<20>>, <<>>, <<>>)}

\* What execute_with_retry(_make_llm_request, ...) gives for one chunk: it
\* raises the exception of the last attempt, or returns no text (a response
\* without choices, an empty content), or returns the text that is parsed.
LlmOutcomes ==
    {[kind |-> "raise", data |-> Nil], [kind |-> "empty", data |-> Nil]}
        \cup {[kind |-> "text", data |-> Some(d)] : d \in ParsedSummaries}

\* The first n elements of a list: list[:n].
Take(list, n) == SubSeq(list, 1, IF Len(list) < n THEN Len(list) ELSE n)

\* A list kept as it is.
KeepAll(list) == list

\* list(dict.fromkeys(list)): the first occurrence of each element, in order.
RECURSIVE Dedup(_)
Dedup(list) ==
    IF list = <<>> THEN <<>>
    ELSE LET front == Dedup(SubSeq(list, 1, Len(list) - 1))
             last == list[Len(list)]
         IN  IF \E k \in 1..Len(front) : front[k] = last THEN front
             ELSE Append(front, last)

\* Lines 190-194: the first framework of each name.
RECURSIVE DedupByName(_)
DedupByName(all_frameworks) ==
    IF all_frameworks = <<>> THEN <<>>
    ELSE LET front == DedupByName(SubSeq(all_frameworks, 1,
                                         Len(all_frameworks) - 1))
             last == all_frameworks[Len(all_frameworks)]
         IN  IF \E k \in 1..Len(front) : front[k].name = last.name THEN front
             ELSE Append(front, last)

\* Insights cut to the cap before the duplicates are removed.
TruncateThenDedup(all_insights) == Dedup(Take(all_insights, InsightsCap))

\* Lines 186-187: unique_insights[:12].
LimitedInsights(all_insights) == Take(Dedup(all_insights), InsightsCap)

\* A note that is added to a single summary as well.
HasSectionsNoteAlways(n) == TRUE

\* Line 182: the note on the number of sections is added for several
\* summaries.
HasSectionsNote(n) == n > 1

\* Lines 179-183 and 200: the executive summary.
ExecutiveSummary(chunk_summaries) ==
    IF chunk_summaries = <<>> THEN <<Paragraph("Resumen no disponible", 0)>>
    ELSE chunk_summaries[1].summary
           \o (IF HasSectionsNote(Len(chunk_summaries))
               THEN <<Paragraph("secciones", Len(chunk_summaries))>>
               ELSE <<>>)

\* Lines 175-209: _combine_chunk_summaries.
combine_chunk_summaries(chunk_summaries, all_insights, all_frameworks, all_moments) ==
    SummaryData(ExecutiveSummary(chunk_summaries),
                LimitedInsights(all_insights),
                DedupByName(all_frameworks),
                Dedup(all_moments),
                <<>>,
                Take(LimitedInsights(all_insights), BulletsCap),
                <<>>,
                <<>>)

\* summarize_transcript returns (summary_data, error).
StReturn(m, summary_data, code) ==
    [m EXCEPT !.pc = "returned", !.result = summary_data, !.error = code]

\* Lines 54-64 and 89-92: summarize_transcript is called on n chunks.
StCall(n) ==
    /\ mg.pc \in {"idle", "returned"}
    /\ mg' = IF n = 0
             THEN StReturn(NewSummarizeCall(n), Nil, "NO_CHUNKS")
             ELSE [NewSummarizeCall(n) EXCEPT
                     !.pc = IF n = 1 THEN "single" ELSE "loop"]
    /\ UNCHANGED <<other_vars, rm, tc, ck, ft, wf>>

\* Lines 74-86 and 128-133: the request for the only chunk is over.
SummarizeSingle(o) ==
    /\ mg.pc = "single"
    /\ LET m == [mg EXCEPT !.outcomes = Append(@, o)]
       IN  mg' = IF o.kind = "raise"
                 THEN StReturn(m, Nil, "SUMMARIZATION_ERROR")
                 ELSE IF o.kind = "empty"
                 THEN StReturn(m, Nil, "SUMMARIZATION_FAILED")
                 ELSE StReturn(m, o.data, None)
    /\ UNCHANGED <<other_vars, rm, tc, ck, ft, wf>>

\* Lines 103-114: the request for the next chunk is over; after the last
\* chunk lines 116-126 return; an exception leaves by lines 128-133.
SummarizeChunk(o) ==
    /\ mg.pc = "loop"
    /\ LET m == [mg EXCEPT !.outcomes = Append(@, o)]
           added ==
               IF o.kind = "text"
               THEN [m EXCEPT
                       !.chunk_summaries = Append(@, Get(o.data)),
                       !.all_key_insights = @ \o Get(o.data).key_insights,
                       !.all_frameworks = @ \o Get(o.data).frameworks,
                       !.all_key_moments = @ \o Get(o.data).key_moments]
               ELSE m
       IN  mg' = IF o.kind = "raise"
                 THEN StReturn(m, Nil, "SUMMARIZATION_ERROR")
                 ELSE IF Len(added.outcomes) < mg.n THEN added
                 ELSE IF added.chunk_summaries = <<>>
                 THEN StReturn(added, Nil, "SUMMARIZATION_FAILED")
                 ELSE StReturn(added,
                               Some(combine_chunk_summaries(
                                        added.chunk_summaries,
                                        added.all_key_insights,
                                        added.all_frameworks,
                                        added.all_key_moments)),
                               None)
    /\ UNCHANGED <<other_vars, rm, tc, ck, ft, wf>>

SummarizerInit ==
    /\ Init
    /\ max_concurrent = 1

SummarizerNext ==
    \/ \E n \in 0..MaxChunks : StCall(n)
    \/ \E o \in LlmOutcomes : SummarizeSingle(o)
    \/ \E o \in LlmOutcomes : SummarizeChunk(o)

SummarizerSpec == SummarizerInit /\ [][SummarizerNext]_vars

\* ----------------------------------------------- jobs that share the slots
\* Jobs on one processor whose items return, time out, raise or are cancelled
\* with their job.
SlotNext ==
    \/ \E b \in Batches, n \in 1..MaxUrls : CreateJob(b, n, TRUE)
    \/ \E b \in Batches : CancelJob(b)
    \/ \E b \in Batches : JobStart(b)
    \/ \E b \in Batches, i \in 1..MaxUrls : Acquire(b, i)
    \/ \E b \in Batches, i \in 1..MaxUrls : StartVideo(b, i, {"no"})
    \/ \E b \in Batches, i \in 1..MaxUrls : VideoRaises(b, i)
    \/ \E b \in Batches, i \in 1..MaxUrls : FinishVideo(b, i)
    \/ \E b \in Batches, i \in 1..MaxUrls : Timeout(b, i)
    \/ \E b \in Batches, i \in 1..MaxUrls : ItemCancel(b, i)
    \/ \E b \in Batches : JobComplete(b)
    \/ \E b \in Batches : JobCancelled(b)

SlotSpec == Init /\ [][SlotNext]_vars

\* ------------------------------------------------------------------ one job
JobNext ==
    \/ \E n \in 1..MaxUrls, opts \in BOOLEAN : CreateJob(1, n, opts)
    \/ CancelJob(1)
    \/ JobStart(1)
    \/ \E i \in 1..MaxUrls : Acquire(1, i)
    \/ \E i \in 1..MaxUrls : StartVideo(1, i, {"no"})
    \/ \E i \in 1..MaxUrls : FinishVideo(1, i)
    \/ \E i \in 1..MaxUrls : Timeout(1, i)
    \/ \E i \in 1..MaxUrls : ItemCancel(1, i)
    \/ JobComplete(1)
    \/ JobCancelled(1)

JobSpec == Init /\ [][JobNext]_vars

\* The event loop runs the task of the job and the tasks of its items; every
\* item invocation returns or times out.  Nothing obliges anybody to create
\* or to cancel a job.
JobFairness ==
    /\ \A i \in 1..MaxUrls :
          /\ WF_vars(Acquire(1, i))
          /\ WF_vars(StartVideo(1, i, {"no"}))
          /\ WF_vars(FinishVideo(1, i) \/ Timeout(1, i))
          /\ WF_vars(ItemCancel(1, i))
    /\ WF_vars(JobStart(1))
    /\ WF_vars(JobComplete(1))
    /\ WF_vars(JobCancelled(1))

FairJobSpec == JobSpec /\ JobFairness

\* ------------------------------------------------ one process_with_retry
RetryNext ==
    \/ \E n \in 1..MaxUrls, retry_failed \in BOOLEAN,
          max_retries \in 0..MaxRetries :
          RetryCall(1, n, retry_failed, max_retries)
    \/ \E i \in 1..MaxUrls : Acquire(1, i)
    \/ \E i \in 1..MaxUrls : StartVideo(1, i, {"no"})
    \/ \E i \in 1..MaxUrls : FinishVideo(1, i)
    \/ \E i \in 1..MaxUrls : Timeout(1, i)
    \/ FirstPassReturn(1)
    \/ RetryRoundReturn(1)

RetrySpec == Init /\ [][RetryNext]_vars

\* The event loop runs the tasks of the call as long as there are any.
RetryFairness ==
    /\ \A i \in 1..MaxUrls :
          /\ WF_vars(Acquire(1, i))
          /\ WF_vars(StartVideo(1, i, {"no"}))
          /\ WF_vars(FinishVideo(1, i) \/ Timeout(1, i))
    /\ WF_vars(FirstPassReturn(1))
    /\ WF_vars(RetryRoundReturn(1))

FairRetrySpec == RetrySpec /\ RetryFairness

\* ------------------------------------------- process_video, stage by stage
Urls == 1..MaxUrls

\* One stage of the invocation, with the outcome o of its collaborator.
Stage(p, o) ==
    CASE p.pc = "extract" -> ExtractVideoId(p, o)
      [] p.pc = "metadata" -> FetchMetadata(p, o)
      [] p.pc = "transcripts" -> FetchTranscripts(p, o)
      [] p.pc = "chunk" -> ChunkTranscripts(p, o)
      [] p.pc = "summaries" -> GenerateSummariesBegin(p)
      [] p.pc = "await_llm" -> GenerateSummariesEnd(p, o)

StageOutcomes(p) ==
    CASE p.pc = "extract" -> VideoIdOutcomes
      [] p.pc = "metadata" -> MetadataOutcomes
      [] p.pc = "transcripts" -> TranscriptOutcomes
      [] p.pc = "chunk" -> IF p.transcripts THEN ChunkOutcomes
                           ELSE {Chunked({})}
      [] p.pc = "summaries" -> {"begin"}
      [] p.pc = "await_llm" -> SummaryOutcomes
      [] OTHER -> {}

PipelineInit ==
    /\ Init
    /\ max_concurrent = 1

\* process_video(url, options) is called.
PvCall(url) ==
    /\ pv.pc \in {"idle", "returned", "cancelled"}
    /\ pv' = NewInvocation(url)
    /\ UNCHANGED batch_vars

\* The invocation runs its next stage.
PvStage ==
    /\ \E o \in StageOutcomes(pv) :
          pv' = [Stage(pv, o) EXCEPT !.outcomes = Append(pv.outcomes, o),
                                     !.stages = Append(pv.stages, pv.pc)]
    /\ UNCHANGED batch_vars

\* The invocation is cancelled while it is suspended (a timeout of wait_for,
\* a cancelled job): CancelledError is no Exception, line 105 lets it pass.
PvCancelled ==
    /\ pv.pc = "await_llm"
    /\ pv' = [pv EXCEPT !.pc = "cancelled"]
    /\ UNCHANGED batch_vars

PipelineNext ==
    \/ \E url \in Urls : PvCall(url)
    \/ PvStage
    \/ PvCancelled

PipelineSpec == PipelineInit /\ [][PipelineNext]_vars

\* ------------------------------------- one invocation under wait_for
\* batch_processor.py lines 134-137: process_video runs as the task of
\* wait_for; suspended in the summarization it is awaiting the LLM request of
\* execute_with_retry or sleeping in its backoff.  One language, one chunk.
\* The timeout of wait_for, or the cancellation of the job, cancels the task:
\* CancelledError is raised at the await where the task is suspended.

\* Handlers that catch CancelledError too (`except BaseException`).
CatchesAll(exception) == TRUE

\* `except Exception` (utils.py line 103, summarization_service.py line 128,
\* orchestrator.py lines 199 and 105, batch_processor.py line 159):
\* CancelledError derives from BaseException and passes.
Catches(exception) == exception # "CancelledError"

CancelCauses == {"timeout", "cancel"}

\* summarization_service.py lines 43-80 and orchestrator.py lines 88-103:
\* execute_with_retry has ended and process_video goes on to its result
\* without suspension; a raised request gives SUMMARIZATION_ERROR and no
\* summary.
ResumeAfterRetry(r) ==
    GenerateSummariesEnd(pv, IF r.pc = "returned" THEN Summarized({"en"})
                             ELSE Summarized({}))

\* The invocation, the retry loop and wait_for after the loop made a step.
AfterRetryStep(r) ==
    IF r.pc \in {"returned", "raised"}
    THEN /\ pv' = ResumeAfterRetry(r)
         /\ wf' = [wf EXCEPT !.pc = "returned", !.result = pv'.result]
    ELSE UNCHANGED <<pv, wf>>

\* wait_for(process_video(url, options), timeout) is awaited: the invocation
\* runs to its return or into the first LLM request.
WfCall(url, max_retries) ==
    /\ wf.pc \in {"idle", "returned", "timed_out", "cancelled"}
    /\ \E o2 \in BatchMetadataOutcomes :
          LET p == RunToSuspension(url, "id", o2, TranscriptOk({"en"}),
                                   Chunked({"en"}))
          IN  /\ pv' = p
              /\ IF p.pc = "returned"
                 THEN /\ wf' = [pc |-> "returned", cause |-> None,
                                result |-> p.result]
                      /\ rm' = NewRetryCall(max_retries, 1)
                 ELSE /\ wf' = [pc |-> "waiting", cause |-> None,
                                result |-> Nil]
                      /\ rm' = LoopStep(NewRetryCall(max_retries, 1), 0)
    /\ UNCHANGED <<max_concurrent, sem, kind, urls, options, tpc, must_cancel,
                   item, completion, response, jobs, running_tasks, cancel_log,
                   blocked, retry, tc, ck, mg, ft, clock>>

\* The LLM request returns or raises.
LlmAttempt(o) ==
    /\ wf.pc = "waiting"
    /\ rm.pc = "calling"
    /\ rm' = Attempted(rm, o)
    /\ AfterRetryStep(rm')
    /\ UNCHANGED <<max_concurrent, sem, kind, urls, options, tpc, must_cancel,
                   item, completion, response, jobs, running_tasks, cancel_log,
                   blocked, retry, tc, ck, mg, ft, clock>>

\* The backoff sleep is over.
LlmWake ==
    /\ wf.pc = "waiting"
    /\ rm.pc = "sleeping"
    /\ rm' = LoopStep(rm, rm.attempt + 1)
    /\ AfterRetryStep(rm')
    /\ UNCHANGED <<max_concurrent, sem, kind, urls, options, tpc, must_cancel,
                   item, completion, response, jobs, running_tasks, cancel_log,
                   blocked, retry, tc, ck, mg, ft, clock>>

\* The timeout of wait_for fires, or the task of the job is cancelled, while
\* the invocation is suspended: the task of the invocation is cancelled.
CancelInvocation(cause) ==
    /\ wf.pc = "waiting"
    /\ rm.pc \in {"calling", "sleeping"}
    /\ wf' = [wf EXCEPT !.pc = "cancelling", !.cause = cause]
    /\ UNCHANGED <<max_concurrent, sem, kind, urls, options, tpc, must_cancel,
                   item, completion, response, jobs, running_tasks, cancel_log,
                   blocked, retry, rm, tc, ck, mg, ft, clock, pv>>

\* The task of the invocation runs again: CancelledError is raised at its
\* await.  In `await func(...)` (utils.py line 102) it is inside the try of
\* the retry loop; in `await asyncio.sleep(delay)` (line 109) it is inside
\* the handler, and leaves execute_with_retry in any case.  Where no handler
\* catches it the invocation ends, and wait_for raises TimeoutError, which
\* gives the TIMEOUT result, or the cancellation goes on to the item's task.
DeliverCancel ==
    /\ wf.pc = "cancelling"
    /\ IF rm.pc = "calling" /\ Catches("CancelledError")
       THEN /\ rm' = Attempted(rm, [ok |-> FALSE, value |-> None,
                                    error |-> "CancelledError"])
            /\ IF rm'.pc = "raised"
               THEN AfterRetryStep(rm')
               ELSE /\ wf' = [wf EXCEPT !.pc = "waiting"]
                    /\ UNCHANGED pv
       ELSE /\ rm' = [rm EXCEPT !.pc = "raised", !.raised = "CancelledError"]
            /\ IF Catches("CancelledError")
               THEN AfterRetryStep(rm')
               ELSE /\ pv' = [pv EXCEPT !.pc = "cancelled"]
                    /\ wf' = IF wf.cause = "timeout"
                             THEN [wf EXCEPT !.pc = "timed_out",
                                             !.result =
                                                 Some(TimeoutResult(pv.url))]
                             ELSE [wf EXCEPT !.pc = "cancelled"]
    /\ UNCHANGED <<max_concurrent, sem, kind, urls, options, tpc, must_cancel,
                   item, completion, response, jobs, running_tasks, cancel_log,
                   blocked, retry, tc, ck, mg, ft, clock>>

TimedNext ==
    \/ \E url \in Urls, max_retries \in 1..MaxAttempts : WfCall(url, max_retries)
    \/ \E o \in FuncOutcomes : LlmAttempt(o)
    \/ LlmWake
    \/ \E cause \in CancelCauses : CancelInvocation(cause)
    \/ DeliverCancel

TimedSpec == PipelineInit /\ [][TimedNext]_vars

\* ------------------------------------------------------- cleanup_old_jobs
\* The hours the clock of the JobManager is followed for.
MaxHours == 2

\* The values of max_age_hours cleanup_old_jobs is called with.
MaxAgeHours == 0..1

\* datetime.timestamp(): the seconds of a clock counted in hours.
timestamp(t) == t * 3600

\* cutoff_time, line 185.
cutoff_time(max_age_hours) == timestamp(clock) - (max_age_hours * 3600)

\* A cleanup that does not look at the age of a record.
OldEnoughAnyAge(job, cutoff) ==
    /\ job.status \in {"completed", "failed"}
    /\ job.completed_at # Nil

\* The test of lines 189-191.
OldEnough(job, cutoff) ==
    /\ job.status \in {"completed", "failed"}
    /\ job.completed_at # Nil
    /\ timestamp(Get(job.completed_at)) < cutoff

\* jobs_to_remove, lines 187-192.
jobs_to_remove(max_age_hours) ==
    {job_id \in DOMAIN jobs : OldEnough(jobs[job_id], cutoff_time(max_age_hours))}

\* for job_id in keys: del dict[job_id]
Del(dict, keys) ==
    IF DOMAIN dict \subseteq keys THEN <<>>
    ELSE [k \in DOMAIN dict \ keys |-> dict[k]]

\* cleanup_old_jobs(max_age_hours), lines 183-198; it awaits nothing.
CleanupOldJobs(max_age_hours) ==
    /\ ~blocked
    /\ jobs' = Del(jobs, jobs_to_remove(max_age_hours))
    /\ UNCHANGED <<max_concurrent, sem, kind, urls, options, tpc, must_cancel,
                   item, completion, response, running_tasks, cancel_log,
                   blocked, retry, rm, tc, ck, mg, ft, wf, clock, pv>>

\* An hour passes on the clock datetime.now() reads.
ClockAdvance ==
    /\ clock < MaxHours
    /\ clock' = clock + 1
    /\ UNCHANGED <<max_concurrent, sem, kind, urls, options, tpc, must_cancel,
                   item, completion, response, jobs, running_tasks, cancel_log,
                   blocked, retry, rm, tc, ck, mg, ft, wf, pv>>

\* Jobs of one url each are created, run, cancelled and cleaned up while
\* the clock advances.
CleanupNext ==
    \/ \E b \in Batches, opts \in BOOLEAN : CreateJob(b, 1, opts)
    \/ \E b \in Batches : CancelJob(b)
    \/ \E b \in Batches : JobStart(b)
    \/ \E b \in Batches : Acquire(b, 1)
    \/ \E b \in Batches : StartVideo(b, 1, {"no"})
    \/ \E b \in Batches : FinishVideo(b, 1)
    \/ \E b \in Batches : ItemCancel(b, 1)
    \/ \E b \in Batches : JobComplete(b)
    \/ \E b \in Batches : JobCancelled(b)
    \/ ClockAdvance
    \/ \E max_age_hours \in MaxAgeHours : CleanupOldJobs(max_age_hours)

CleanupSpec == Init /\ [][CleanupNext]_vars

\* ------------------------------------------------------------------ claims
JobIds == DOMAIN jobs
Cancelled(b) == \E k \in 1..Len(cancel_log[b]) : ReturnedTrue(cancel_log[b][k])
Returned(b) == response[b] # Nil

\* C1: the results of process_batch have one entry per url, and entry i is
\* the result for urls[i], whatever the order in which the items completed.
C1_ResultsFollowUrls ==
    \A b \in Batches :
        Returned(b) =>
            /\ Len(Get(response[b]).results) = Len(urls[b])
            /\ \A i \in Indexes(b) : Get(response[b]).results[i].url = urls[b][i]

\* C1 witness: a batch returned whose second item completed before its first.
C1_Witness ==
    \E b \in Batches :
        /\ Returned(b)
        /\ Len(urls[b]) = 2
        /\ completion[b] = <<2, 1>>
        /\ Get(response[b]).results[2].url = urls[b][2]

\* C2: at most max_concurrent invocations of process_video are in progress,
\* over all the process_batch calls running on the processor.
C2_ConcurrencyBound == Cardinality(InProgress) <= max_concurrent

\* C2 witness: every slot is taken, by items of two batches, and an item waits.
C2_Witness ==
    /\ max_concurrent > 1
    /\ Cardinality(InProgress) = max_concurrent
    /\ \E x, y \in InProgress : x[1] # y[1]
    /\ \E b \in Batches : \E i \in Items(b) : item[b][i].pc = "waiting"

\* C3: an item whose pipeline never completes gets the TIMEOUT result, and
\* process_batch returns with it and with the results of the other items.
Hanging(b, i) == i \in Items(b) /\ item[b][i].pc \in {"hung", "blocking"}
AwaitHanging(b, i) == i \in Items(b) /\ item[b][i].pc = "hung"
TimedOutAndReturned(b, i) ==
    /\ tpc[b] = "done"
    /\ Returned(b)
    /\ Len(Get(response[b]).results) = Len(urls[b])
    /\ i \in Indexes(b)
    /\ Get(response[b]).results[i].code = "TIMEOUT"
    /\ \A k \in Indexes(b) : Get(response[b]).results[k].url = urls[b][k]

C3_HangingItemTimesOut ==
    \A b \in Batches, i \in 1..MaxUrls :
        Hanging(b, i) ~> TimedOutAndReturned(b, i)

\* The items that hang in an await: these do get the TIMEOUT result, in every
\* behaviour of FairAwaitHangSpec.
AwaitHangingItemTimesOut ==
    \A b \in Batches, i \in 1..MaxUrls :
        AwaitHanging(b, i) ~> TimedOutAndReturned(b, i)

\* C4: a job's status moves only pending -> running, running -> completed,
\* running -> failed, and by cancel_job pending or running -> failed;
\* completed and failed are left by nothing.
StatusMove(b) == <<jobs[b].status, jobs'[b].status>>
ByCancelJob(b) == cancel_log'[b] = Append(cancel_log[b], "cancelled")
AllowedMove(b) ==
    \/ jobs'[b].status = jobs[b].status
    \/ StatusMove(b) = <<"pending", "running">> /\ ~ByCancelJob(b)
    \/ StatusMove(b) = <<"running", "completed">> /\ ~ByCancelJob(b)
    \/ StatusMove(b) = <<"running", "failed">>
    \/ StatusMove(b) = <<"pending", "failed">> /\ ByCancelJob(b)

C4_StatusMoves ==
    [][/\ JobIds \subseteq DOMAIN jobs'
       /\ \A b \in JobIds : AllowedMove(b)
       /\ \A b \in DOMAIN jobs' \ JobIds : jobs'[b].status = "pending"]_vars

\* C4 witness: one job completed and another failed while it was running.
C4_Witness ==
    \E a, b \in JobIds :
        /\ jobs[a].status = "completed"
        /\ jobs[b].status = "failed"
        /\ item[b] # <<>>

\* C5: cancel_job returns true exactly when the job is pending or running at
\* the call, and for one job id it returns true at most once: every call
\* after that one returns false.
CancelReturns(b) == cancel_log'[b] # cancel_log[b]
Last(q) == q[Len(q)]
C5_CancelOnce ==
    /\ [](\A b \in Batches : \A k, m \in 1..Len(cancel_log[b]) :
             ReturnedTrue(cancel_log[b][k]) /\ k < m
                 => ~ReturnedTrue(cancel_log[b][m]))
    /\ [][\A b \in Batches :
             CancelReturns(b) =>
                 (ReturnedTrue(Last(cancel_log'[b]))
                     <=> /\ b \in JobIds
                         /\ jobs[b].status \in {"pending", "running"})]_vars

\* C5 witness: a first cancel_job returned true, a second one false.
C5_Witness == \E b \in Batches : cancel_log[b] = <<"cancelled", "refused">>

\* C6: a completed job is not changed by a late cancel_job, which returns
\* false; a job whose cancel_job returned true never becomes completed and
\* never gets a result.
C6_CancelAgainstCompletion ==
    /\ [](\A b \in JobIds :
             Cancelled(b) => jobs[b].status = "failed" /\ jobs[b].result = Nil)
    /\ [][\A b \in JobIds :
             jobs[b].status = "completed" =>
                 /\ jobs'[b] = jobs[b]
                 /\ CancelReturns(b) => ~ReturnedTrue(Last(cancel_log'[b]))]_vars

\* C6 witness: cancel_job was refused for a completed job.
C6_Witness ==
    \E b \in JobIds :
        /\ jobs[b].status = "completed"
        /\ jobs[b].result # Nil
        /\ \E k \in 1..Len(cancel_log[b]) : cancel_log[b][k] = "refused"

\* C7: once cancel_job has returned true for a job, the terminal fields it
\* wrote are final: nothing writes the record again.
C7_CancelledRecordFinal ==
    [][\A b \in JobIds : Cancelled(b) => jobs'[b] = jobs[b]]_vars

\* C8 as claimed: once create_job has returned, the record is running.
C8_RunningAtReturn ==
    \A b \in JobIds : jobs[b].status # "pending"

\* C8, amended: when create_job returns the record is pending and the task
\* of the background execution is created and stored, not run: no item
\* exists, no result; the record is running from the first step of the
\* task, before any item is started.
C8_PendingAtReturn ==
    \A b \in Batches :
        /\ kind[b] = "job" => b \in JobIds
        /\ tpc[b] = "scheduled" =>
              /\ item[b] = <<>> /\ jobs[b].result = Nil
              /\ ~Cancelled(b) =>
                    jobs[b].status = "pending" /\ b \in running_tasks
        /\ kind[b] = "job" /\ tpc[b] = "gather" /\ ~Cancelled(b) =>
              jobs[b].status = "running" /\ b \in running_tasks
        /\ kind[b] = "job" /\ item[b] # <<>> => jobs[b].status # "pending"

\* C8 witness: create_job has returned for a second job while the first one
\* is running.
C8_Witness ==
    \E a, b \in JobIds :
        /\ tpc[a] = "gather" /\ jobs[a].status = "running"
        /\ tpc[b] = "scheduled" /\ jobs[b].status = "pending"

\* C9: after cancel_job returned true, no item of the job's batch is
\* started: an item that waits for a slot stays waiting or is cancelled, a
\* batch not yet entered is never entered; and the record is failed at once,
\* whatever the items in flight do.
NotStarted(it) == it.pc \in {"created", "waiting"}
Stage1Ok == Len(pv.outcomes) >= 1 /\ pv.outcomes[1] = "id"
Stage2Ok == Len(pv.outcomes) >= 2 /\ pv.outcomes[2] = "ok"
C10_OkUnlessStage1Or2Failed ==
    pv.pc = "returned" =>
        LET r == Get(pv.result) IN
        /\ r.status \in {"ok", "error"}
        /\ r.status = "ok" <=> Stage1Ok /\ Stage2Ok
        /\ ~Stage1Ok => r.code = "INVALID_URL"
        /\ Stage1Ok /\ ~Stage2Ok =>
              r.code = IF pv.outcomes[2] \in MetadataErrorCodes
                       THEN pv.outcomes[2] ELSE "METADATA_ERROR"

\* C10 witness: an ok result although the transcript fetch raised.
C10_Witness ==
    /\ pv.pc = "returned"
    /\ Get(pv.result).status = "ok"
    /\ pv.outcomes[3].status = "raise"

\* C11: the stages of an invocation run in the order id resolution, metadata
\* fetch, transcript fetch, chunking, summarization, each at most once, and
\* after a failed id resolution or a failed metadata fetch no later stage
\* runs: the invocation has returned.
StageOrder ==
    <<"extract", "metadata", "transcripts", "chunk", "summaries", "await_llm">>
IsPrefix(q, r) == Len(q) <= Len(r) /\ \A k \in 1..Len(q) : q[k] = r[k]
C11_StagesInOrder ==
    /\ IsPrefix(pv.stages, StageOrder)
    /\ Len(pv.outcomes) = Len(pv.stages)
    /\ Len(pv.stages) >= 1 /\ ~Stage1Ok =>
          pv.stages = <<"extract">> /\ pv.pc = "returned"
    /\ Len(pv.stages) >= 2 /\ ~Stage2Ok =>
          pv.stages = <<"extract", "metadata">> /\ pv.pc = "returned"

\* C11 witness: an invocation that ended at a failed metadata fetch.
C11_Witness ==
    /\ pv.pc = "returned"
    /\ pv.stages = <<"extract", "metadata">>
    /\ pv.outcomes[2] = "VIDEO_PRIVATE"

\* C12: when the transcript fetch fails (error value or exception) after the
\* metadata was fetched, the summarizer is never called, and the invocation
\* returns ok with the metadata, without transcripts and without summaries.
TranscriptFetchFailed ==
    Len(pv.outcomes) >= 3 /\ pv.outcomes[3].status \in {"error", "raise"}
SummarizerCalled == \E k \in 1..Len(pv.stages) : pv.stages[k] = "await_llm"
C12_OkWithoutTranscripts ==
    TranscriptFetchFailed =>
        /\ ~SummarizerCalled
        /\ pv.pc # "await_llm"
        /\ pv.pc = "returned" =>
              LET r == Get(pv.result) IN
              /\ r.status = "ok"
              /\ r.metadata
              /\ ~r.transcripts
              /\ ~r.summaries

\* C12 witness: an invocation returned after the fetcher gave an error value.
C12_Witness ==
    /\ pv.pc = "returned"
    /\ TranscriptFetchFailed
    /\ pv.outcomes[3].status = "error"
    /\ Get(pv.result).metadata
    /\ pv.stages = <<"extract", "metadata", "transcripts", "chunk", "summaries">>

OthersKept(b, i) ==
    \A k \in Items(b) :
        k # i /\ item[b][k].pc = "done" => item'[b][k] = item[b][k]
MetadataFails(i, c) ==
    StartVideoOutcome(1, i, "id", c, TranscriptOk({"en"}), Chunked({"en"}), "no")
C14_CollaboratorCodeKept ==
    /\ [][\A i \in 1..ExampleUrls :
             /\ \A c \in MetadataErrorCodes :
                   MetadataFails(i, c) =>
                       /\ item'[1][i].pc = "done"
                       /\ Get(item'[1][i].result).status = "error"
                       /\ Get(item'[1][i].result).code = c
                       /\ OthersKept(1, i)
             /\ FinishVideo(1, i) =>
                   /\ Get(item'[1][i].result).status = "ok"
                   /\ OthersKept(1, i)]_vars
    /\ [](Returned(1) =>
             /\ Len(Get(response[1]).results) = Len(urls[1])
             /\ \A i \in Indexes(1) :
                   Get(response[1]).results[i] = Get(item[1][i].result))

\* C14 witness: the batch of 3 with concurrency 2 whose item 2 failed with
\* VIDEO_UNAVAILABLE: 3 results, 2 succeeded, 1 failed.
C14_Witness ==
    /\ Returned(1)
    /\ max_concurrent = 2
    /\ Len(urls[1]) = 3
    /\ Get(response[1]).results[2].status = "error"
    /\ Get(response[1]).results[2].code = "VIDEO_UNAVAILABLE"
    /\ Get(response[1]).results[1].status = "ok"
    /\ Get(response[1]).results[3].status = "ok"
    /\ Get(response[1]).total = 3
    /\ Get(response[1]).succeeded = 2
    /\ Get(response[1]).failed = 1

\* C15: the counters of a response agree with its results: succeeded +
\* failed = total = the number of results, succeeded is the number of ok
\* results and failed the number of error results, for the response of
\* process_batch and after every round of process_with_retry.
WithStatus(results, status) ==
    Cardinality({i \in 1..Len(results) : results[i].status = status})
Consistent(resp) ==
    /\ resp.total = Len(resp.results)
    /\ resp.succeeded + resp.failed = resp.total
    /\ resp.succeeded = WithStatus(resp.results, "ok")
    /\ resp.failed = WithStatus(resp.results, "error")
C15_CountersAgree ==
    \A b \in Batches :
        response[b] # Nil =>
            /\ Consistent(Get(response[b]))
            /\ Get(response[b]).total = Len(urls[b])

\* C15 witness: a call returned after a retry replaced the result of item 1,
\* item 2 having failed every time.
C15_Witness ==
    /\ tpc[1] = "done"
    /\ Len(urls[1]) = 2
    /\ retry[1].invocations[1] >= 2
    /\ Get(response[1]).results[1].status = "ok"
    /\ Get(response[1]).results[2].status = "error"
    /\ Get(response[1]).succeeded = 1
    /\ Get(response[1]).failed = 1

\* C16: when a retry round ends, the result of a retried item that succeeded
\* replaces the one at its original index and the result of a retried item
\* that failed again is kept; a result is changed in no other way, and an
\* item whose result is ok is neither run again nor modified.
Results(b) == Get(response[b]).results
Retried(b, i) == InSeq(i, retry[b].failed_urls)
C16_ReplacedInPlace ==
    [][response[1] # Nil =>
          \A i \in Indexes(1) :
              /\ Results(1)[i].status = "ok" =>
                    /\ Get(response'[1]).results[i] = Results(1)[i]
                    /\ retry'[1].invocations[i] = retry[1].invocations[i]
                    /\ item'[1][i] = item[1][i]
              /\ RetryRoundReturn(1) /\ Retried(1, i) =>
                    IF item[1][i].success
                    THEN /\ Get(response'[1]).results[i] = Get(item[1][i].result)
                         /\ Get(response'[1]).results[i].status = "ok"
                         /\ Get(response'[1]).results[i].url = urls[1][i]
                    ELSE Get(response'[1]).results[i] = Results(1)[i]
              /\ Get(response'[1]).results[i] # Results(1)[i] =>
                    RetryRoundReturn(1) /\ Retried(1, i)]_vars

\* C16 witness: with two retries, item 2 succeeded in a retry and item 1
\* failed in both.
C16_Witness ==
    /\ tpc[1] = "done"
    /\ retry[1].max_retries = 2
    /\ Len(urls[1]) = 2
    /\ retry[1].invocations[1] = 3
    /\ Results(1)[1].status = "error"
    /\ retry[1].invocations[2] >= 2
    /\ Results(1)[2].status = "ok"
    /\ Results(1)[2].url = urls[1][2]

\* C17: process_with_retry makes at most 1 + max_retries invocations for an
\* item (one without retry_failed), another one only for an item whose
\* latest attempt failed, runs a round only while a failed item remains,
\* and returns.
Invocations(i) == retry[1].invocations[i]
C17_RetryBounded ==
    /\ [](\A i \in DOMAIN retry[1].invocations :
             /\ Invocations(i) <= 1 + retry[1].max_retries
             /\ ~retry[1].retry_failed => Invocations(i) = 1)
    /\ [](tpc[1] = "gather" /\ retry[1].retry_attempt > 0 =>
             /\ retry[1].failed_urls # <<>>
             /\ retry[1].retry_attempt <= retry[1].max_retries)
    /\ [][kind[1] = "retry" =>
             \A i \in Indexes(1) :
                 retry'[1].invocations[i] # Invocations(i) =>
                     /\ retry'[1].invocations[i] = Invocations(i) + 1
                     /\ item[1][i].pc = "done" /\ ~item[1][i].success
                     /\ Get(response'[1]).results[i].status = "error"]_vars
    /\ (kind[1] = "retry" ~> tpc[1] = "done")

\* C17 witness: with one retry allowed, item 1 failed twice and the call
\* returned; item 2 was invoked once.
C17_Witness ==
    /\ tpc[1] = "done"
    /\ retry[1].retry_failed
    /\ retry[1].max_retries = 1
    /\ retry[1].invocations = <<2, 1>>
    /\ Results(1)[1].status = "error"
    /\ retry[1].failed_urls = <<1>>

\* C18: a job that was created reaches completed or failed; a failed record
\* has an error with code and message, a completed one its result; when the
\* background execution raises, the handler makes the record failed with
\* JOB_ERROR and the task ends.
TerminalStatus(b) == b \in JobIds /\ jobs[b].status \in {"completed", "failed"}
StructuredError(job) ==
    /\ job.error # Nil
    /\ Get(job.error).code \in {"JOB_ERROR", "JOB_CANCELLED"}
    /\ Get(job.error).message # None
C18_JobReachesTerminal ==
    /\ (1 \in JobIds ~> TerminalStatus(1))
    /\ [](\A b \in JobIds :
             /\ jobs[b].status = "failed" => StructuredError(jobs[b])
             /\ jobs[b].status = "completed" =>
                   jobs[b].result # Nil /\ jobs[b].error = Nil
             /\ tpc[b] = "done" => TerminalStatus(b) /\ b \notin running_tasks)
    /\ [][JobComplete(1) /\ ~options[1] =>
             /\ jobs'[1].status = "failed"
             /\ StructuredError(jobs'[1])
             /\ Get(jobs'[1].error).code = "JOB_ERROR"
             /\ jobs'[1].result = Nil
             /\ tpc'[1] = "done"]_vars

\* C18 witness: a job whose background execution raised: failed, JOB_ERROR,
\* task ended.
C18_Witness ==
    /\ 1 \in JobIds
    /\ tpc[1] = "done"
    /\ jobs[1].status = "failed"
    /\ Get(jobs[1].error).code = "JOB_ERROR"
    /\ cancel_log[1] = <<>>

\* C19: execute_with_retry calls func at most max_retries times; every call
\* before the last one failed; it returns only after a successful call, with
\* that call's value; it raises only after max_retries failed calls, with the
\* exception of the last one.
C19_AtMostMaxRetriesCalls ==
    /\ Len(rm.calls) <= rm.max_retries
    /\ \A k \in 1..(Len(rm.calls) - 1) : ~rm.calls[k].ok
    /\ rm.pc = "returned" =>
          /\ Len(rm.calls) >= 1
          /\ rm.calls[Len(rm.calls)].ok
          /\ rm.result = rm.calls[Len(rm.calls)].value
    /\ rm.pc = "raised" =>
          /\ Len(rm.calls) = rm.max_retries
          /\ \A k \in 1..Len(rm.calls) : ~rm.calls[k].ok
          /\ rm.max_retries > 0 => rm.raised = rm.calls[Len(rm.calls)].error
    /\ rm.pc \in {"calling", "sleeping"} =>
          /\ Len(rm.calls) < rm.max_retries
          /\ \A k \in 1..Len(rm.calls) : ~rm.calls[k].ok

\* C19 witnesses: every call failed and there were max_retries of them; a
\* call succeeded after a failed one and no call followed.
C19_Witness ==
    /\ rm.pc = "raised"
    /\ rm.max_retries = MaxAttempts
    /\ Len(rm.calls) = MaxAttempts
C19_WitnessSuccess ==
    /\ rm.pc = "returned"
    /\ rm.max_retries = MaxAttempts
    /\ Len(rm.calls) = 2
    /\ rm.result = "r2"

\* C20: the sleep number j follows the failed call j, precedes call j + 1 and
\* lasts base_delay * 2^(j - 1), which is base_delay * 2^(k - 2) for the
\* attempt k = j + 1 it precedes; there is no sleep after the last call.
C20_BackoffDelays ==
    /\ \A j \in 1..Len(rm.sleeps) :
          /\ rm.sleeps[j].after = j
          /\ j <= Len(rm.calls)
          /\ ~rm.calls[j].ok
          /\ rm.sleeps[j].delay = rm.base_delay * Pow2((j + 1) - 2)
    /\ rm.pc = "calling" => Len(rm.sleeps) = Len(rm.calls)
    /\ rm.pc = "sleeping" =>
          /\ Len(rm.sleeps) = Len(rm.calls)
          /\ Len(rm.calls) < rm.max_retries
    /\ rm.pc \in {"returned", "raised"} /\ rm.calls # <<>> =>
          Len(rm.sleeps) = Len(rm.calls) - 1
    /\ rm.calls = <<>> => rm.sleeps = <<>>

\* C20 witness: three failed attempts with base_delay 3: the sleeps lasted 3
\* and 6, and none followed the last attempt.
C20_Witness ==
    /\ rm.pc = "raised"
    /\ rm.base_delay = 3
    /\ Len(rm.calls) = 3
    /\ Len(rm.sleeps) = 2
    /\ rm.sleeps[1].delay = 3
    /\ rm.sleeps[2].delay = 6

\* C21: whenever execute_with_retry raises, for every max_retries, what it
\* raises is the exception of its last call of func.
C21_RaisesLastError ==
    rm.pc = "raised" =>
        /\ rm.calls # <<>>
        /\ ~rm.calls[Len(rm.calls)].ok
        /\ rm.raised = rm.calls[Len(rm.calls)].error

\* C22: get_transcript returns the stored lines while now - timestamp <= ttl;
\* once now - timestamp > ttl it returns nothing and removes the entry; an
\* absent entry gives nothing; the entries change only in get_transcript and
\* set_transcript, never with the passing of time.
Age(v) == tc.now - Get(tc.cache[v]).timestamp
C22_LazyExpiry ==
    [][/\ \A t \in Threads :
            GetTranscript(t) =>
              LET v == tc.th[t].video_id
              IN  /\ tc.cache[v] = Nil =>
                        tc'.th[t].got = Nil /\ tc'.cache = tc.cache
                  /\ tc.cache[v] # Nil /\ Age(v) <= Ttl =>
                        /\ tc'.th[t].got = Some(Get(tc.cache[v]).lines)
                        /\ tc'.cache = tc.cache
                  /\ tc.cache[v] # Nil /\ Age(v) > Ttl =>
                        /\ tc'.th[t].got = Nil
                        /\ tc'.cache = [tc.cache EXCEPT ![v] = Nil]
       /\ Tick => tc'.cache = tc.cache]_vars

\* C22 witness: a caller read an entry older than the ttl: it got nothing,
\* the entry is gone and the caller produces the transcript again.
C22_Witness ==
    \E t \in Threads :
        /\ tc.th[t].pc = "youtube"
        /\ tc.th[t].got = Nil
        /\ tc.cache[tc.th[t].video_id] = Nil
        /\ tc.now > Ttl
        /\ \E u \in Threads \ {t} :
              /\ tc.th[u].pc = "returned"
              /\ tc.th[u].video_id = tc.th[t].video_id
              /\ tc.th[u].lines # Nil

\* C23: at most one caller is inside get_transcript or set_transcript, and it
\* is the holder of the lock; a caller that is producing a transcript (YouTube
\* API or Whisper) does not hold the lock, so that another caller may read,
\* produce and store meanwhile; a store puts the whole of the stored lines of
\* one caller under its video id and touches no other entry.
InCache(t) == tc.th[t].pc \in {"get_locked", "set_locked"}
Producing(t) == tc.th[t].pc \in {"youtube", "whisper"}
C23_LockOnlyAroundCache ==
    /\ [](/\ \A t, u \in Threads : InCache(t) /\ InCache(u) => t = u
          /\ \A t \in Threads : InCache(t) <=> tc.lock = t
          /\ \A t \in Threads : Producing(t) => tc.lock # t
          /\ \A v \in VideoIds :
                tc.cache[v] # Nil => Get(tc.cache[v]).lines \in Threads)
    /\ [][\A t \in Threads :
             SetTranscript(t) =>
               tc'.cache = [tc.cache EXCEPT ![tc.th[t].video_id] =
                              Some(CacheEntry(Get(tc.th[t].lines), tc.now))]]_vars

\* C23 witness: two callers asked for the same uncached video, each produced
\* its own transcript and returned it, and the cache holds one of the two.
C23_Witness ==
    /\ tc.th[1].pc = "returned" /\ tc.th[2].pc = "returned"
    /\ tc.th[1].video_id = tc.th[2].video_id
    /\ tc.th[1].result = Some(1) /\ tc.th[2].result = Some(2)
    /\ tc.now = 0
    /\ tc.cache[tc.th[1].video_id] # Nil
    /\ Get(tc.cache[tc.th[1].video_id]).lines \in {1, 2}

\* The segment lists of the chunks, one after the other in chunk order.
RECURSIVE ConcatSegments(_)
ConcatSegments(chunks) ==
    IF chunks = <<>> THEN <<>>
    ELSE Head(chunks).segments \o ConcatSegments(Tail(chunks))

\* C24: the segment lists of the returned chunks, concatenated in chunk
\* order, are the input segment list.
C24_SegmentsPreserved ==
    ck.pc = "returned" => ConcatSegments(ck.chunks) = ck.segments

\* C25 as claimed: a transcript whose estimated tokens are at most max_tokens
\* comes back as exactly one chunk, of index 0, with all the segments.
WholeTranscriptChunk ==
    /\ Len(ck.chunks) = 1
    /\ ck.chunks[1].chunk_index = 0
    /\ ck.chunks[1].segments = ck.segments
    /\ ck.chunks[1].token_count = ck.total_tokens
C25_OneChunkIfSmall ==
    ck.pc = "returned" /\ ck.total_tokens <= ck.max_tokens =>
        WholeTranscriptChunk

\* C25, amended: a transcript with at least one segment whose estimated
\* tokens are at most max_tokens comes back as exactly one chunk, of index 0,
\* with all the segments; a transcript without segments comes back as no
\* chunk at all.
C25_OneChunkIfSmallAndNotEmpty ==
    ck.pc = "returned" =>
        /\ ck.segments # <<>> /\ ck.total_tokens <= ck.max_tokens =>
              WholeTranscriptChunk
        /\ ck.segments = <<>> => ck.chunks = <<>>

\* C25 witness: a transcript of several segments, a blank one among them,
\* within max_tokens: one chunk with all of them.
C25_Witness ==
    /\ ck.pc = "returned"
    /\ Len(ck.segments) = MaxSegments
    /\ \E i \in 1..Len(ck.segments) : ck.segments[i].chars = 0
    /\ ck.total_tokens > 0
    /\ ck.total_tokens <= ck.max_tokens
    /\ Len(ck.chunks) = 1
    /\ ck.chunks[1].segments = ck.segments

\* The running totals of a chunk, as the bounds count them: the estimates of
\* its segments added up, and the length of its text with the separator in
\* front of it when it is not the first chunk.
RECURSIVE SumOfEstimates(_, _)
SumOfEstimates(segments, language) ==
    IF segments = <<>> THEN 0
    ELSE estimate_tokens(Head(segments), language)
             + SumOfEstimates(Tail(segments), language)
RunningChars(chunks, j) == chunks[j].char_count + (IF j > 1 THEN 1 ELSE 0)

\* C26: in the multi-chunk case every chunk has at least one segment, whole
\* segments only, each non-blank segment in one chunk, in the input order; a
\* chunk of several segments was within both bounds when each of them joined;
\* the first segment of the next chunk did not fit; a chunk has token_count
\* <= max_tokens and char_count <= max_chars unless it is one segment.
MultiChunkCase ==
    /\ ck.pc = "returned"
    /\ ck.segments # <<>>
    /\ ck.total_tokens > ck.max_tokens
C26_GreedyWithinBounds ==
    MultiChunkCase =>
        LET chunks == ck.chunks
            all == ConcatSegments(chunks)
        IN  /\ \A k \in 1..Len(all) : all[k] \in {ck.segments[i] : i \in 1..Len(ck.segments)}
            /\ \A k \in 1..(Len(all) - 1) : all[k].id < all[k + 1].id
            /\ \A i \in 1..Len(ck.segments) :
                  ck.segments[i].chars > 0 =>
                      \E k \in 1..Len(all) : all[k] = ck.segments[i]
            /\ \A j \in 1..Len(chunks) :
                  /\ chunks[j].segments # <<>>
                  /\ chunks[j].chunk_index = j - 1
                  /\ Len(chunks[j].segments) > 1 =>
                        /\ SumOfEstimates(chunks[j].segments, ck.language)
                              <= ck.max_tokens
                        /\ RunningChars(chunks, j) <= ck.max_chars
                  /\ \/ Len(chunks[j].segments) = 1
                     \/ /\ chunks[j].token_count <= ck.max_tokens
                        /\ chunks[j].char_count <= ck.max_chars
            /\ \A j \in 1..(Len(chunks) - 1) :
                  LET first == Head(chunks[j + 1].segments)
                  IN  \/ SumOfEstimates(chunks[j].segments, ck.language)
                            + estimate_tokens(first, ck.language) > ck.max_tokens
                      \/ RunningChars(chunks, j) + 1 + first.chars
                            > ck.max_chars

\* C26 witness: a multi-chunk call whose first chunk took two segments and
\* whose second chunk is one segment longer than max_chars.
C26_Witness ==
    /\ MultiChunkCase
    /\ Len(ck.chunks) = 2
    /\ Len(ck.chunks[1].segments) = 2
    /\ Len(ck.chunks[2].segments) = 1
    /\ ck.chunks[2].char_count > ck.max_chars
    /\ ck.chunks[1].char_count <= ck.max_chars

\* The chunks whose request gave a text, and the summaries parsed from them,
\* in chunk order.
Summarized1(k) == mg.outcomes[k].kind = "text"
SummarizedChunks == {k \in 1..Len(mg.outcomes) : Summarized1(k)}
RECURSIVE ParsedUpTo(_)
ParsedUpTo(k) ==
    IF k = 0 THEN <<>>
    ELSE IF Summarized1(k) THEN Append(ParsedUpTo(k - 1), Get(mg.outcomes[k].data))
    ELSE ParsedUpTo(k - 1)
MergeInput == ParsedUpTo(Len(mg.outcomes))
NoDuplicates(list) ==
    \A j, k \in 1..Len(list) : list[j] = list[k] => j = k
NoDuplicateNames(frameworks) ==
    \A j, k \in 1..Len(frameworks) :
        frameworks[j].name = frameworks[k].name => j = k

RECURSIVE ConcatField(_, _)
ConcatField(summaries, field) ==
    IF summaries = <<>> THEN <<>>
    ELSE Head(summaries)[field] \o ConcatField(Tail(summaries), field)
\* The elements of a list that no earlier element equals, in their order.
IsFirst(list, k) == \A j \in 1..(k - 1) : list[j] # list[k]
RECURSIVE FirstsUpTo(_, _)
FirstsUpTo(list, k) ==
    IF k = 0 THEN <<>>
    ELSE IF IsFirst(list, k) THEN Append(FirstsUpTo(list, k - 1), list[k])
    ELSE FirstsUpTo(list, k - 1)
FirstOccurrences(list) == FirstsUpTo(list, Len(list))
Merged == mg.pc = "returned" /\ mg.n > 1 /\ mg.result # Nil

\* C28: the merged summary has no duplicate insight, moment or framework
\* name; what is kept of each is its first occurrence in chunk order; the
\* framework kept for a name is the first one with its description and steps.
C28_NoDuplicates ==
    Merged =>
        LET r == Get(mg.result)
            frameworks == ConcatField(MergeInput, "frameworks")
            moments == ConcatField(MergeInput, "key_moments")
            insights == ConcatField(MergeInput, "key_insights")
        IN  /\ NoDuplicates(r.key_insights)
            /\ NoDuplicates(r.key_moments)
            /\ NoDuplicateNames(r.frameworks)
            /\ NoDuplicates(r.bullets)
            /\ r.key_moments = FirstOccurrences(moments)
            /\ \A k \in 1..Len(r.key_insights) :
                  r.key_insights[k] = FirstOccurrences(insights)[k]
            /\ \A k \in 1..Len(frameworks) :
                  \E j \in 1..Len(r.frameworks) :
                      r.frameworks[j].name = frameworks[k].name
            /\ \A j \in 1..Len(r.frameworks) :
                  \E k \in 1..Len(frameworks) :
                      /\ r.frameworks[j] = frameworks[k]
                      /\ \A i \in 1..(k - 1) :
                            frameworks[i].name # frameworks[k].name
            /\ \A i, j \in 1..Len(r.frameworks) :
                  i < j =>
                      \E k, l \in 1..Len(frameworks) :
                          /\ k < l
                          /\ r.frameworks[i] = frameworks[k]
                          /\ r.frameworks[j] = frameworks[l]

\* C28 witness: the merge of three summaries in which an insight, a moment
\* and the framework name "F" come twice: "F" keeps its first description.
C28_Witness ==
    /\ Merged
    /\ Len(MergeInput) = 3
    /\ ~NoDuplicates(ConcatField(MergeInput, "key_insights"))
    /\ ~NoDuplicates(ConcatField(MergeInput, "key_moments"))
    /\ \E j \in 1..Len(Get(mg.result).frameworks) :
          Get(mg.result).frameworks[j] = FrameworkData("F", "d1", <<1>>)
    /\ \E k \in 1..Len(MergeInput) :
          \E i \in 1..Len(MergeInput[k].frameworks) :
              MergeInput[k].frameworks[i] = FrameworkData("F", "d2", <<2>>)

\* C29: the merged insights are the first 12 distinct insights of the chunks
\* taken in chunk order; the merged moments are all the distinct moments.
C29_FirstTwelveDistinct ==
    Merged =>
        LET r == Get(mg.result)
            distinct == FirstOccurrences(ConcatField(MergeInput, "key_insights"))
            moments == FirstOccurrences(ConcatField(MergeInput, "key_moments"))
        IN  /\ Len(r.key_insights) <= InsightsCap
            /\ Len(r.key_insights) =
                  (IF Len(distinct) < InsightsCap THEN Len(distinct)
                   ELSE InsightsCap)
            /\ r.key_insights = SubSeq(distinct, 1, Len(r.key_insights))
            /\ Len(r.key_moments) = Len(moments)
            /\ r.key_moments = moments

\* C29 witness: the chunks hold more than 12 distinct insights and more than
\* 12 distinct moments, with a duplicate among the first 12 insights: 12
\* insights are kept, and all the moments.
C29_Witness ==
    /\ Merged
    /\ Len(FirstOccurrences(ConcatField(MergeInput, "key_insights")))
          > InsightsCap
    /\ ~NoDuplicates(Take(ConcatField(MergeInput, "key_insights"), InsightsCap))
    /\ Len(Get(mg.result).key_insights) = InsightsCap
    /\ Len(Get(mg.result).key_moments) > InsightsCap

\* C30: for a multi-chunk transcript the chunks whose request failed are left
\* out and the summaries of the others are merged: there is a summary as soon
\* as one chunk was summarized.
C30_FailedChunkExcluded ==
    mg.pc = "returned" /\ mg.n > 1 =>
        /\ SummarizedChunks # {} =>
              /\ mg.result # Nil
              /\ Len(MergeInput) = Cardinality(SummarizedChunks)
              /\ Get(mg.result).key_moments =
                    FirstOccurrences(ConcatField(MergeInput, "key_moments"))
        /\ SummarizedChunks = {} => mg.result = Nil


\* C31: every exit of process_video (no video id, metadata error, success,
\* unexpected exception) has called stats.complete(): the ProcessingStats
\* returned with the result has end_time and total_time set.
C31_StatsCompleteOnEveryExit ==
    pv.pc = "returned" => pv.stats_complete


\* The scenario's transcript was chunked: 25 segments, each of 28 to 34
\* English words (estimated at 46 to 54 tokens), max_tokens = 120.
ExampleChunked ==
    /\ ck.pc = "returned"
    /\ Len(ck.segments) = 25
    /\ ck.max_tokens = 120
    /\ ck.language = "en"
    /\ \A i \in 1..Len(ck.segments) : ck.segments[i].words \in ExampleWords
WithinTokensUnsplit ==
    /\ \A j \in 1..Len(ck.chunks) :
          /\ ck.chunks[j].token_count <= ck.max_tokens
          /\ SumOfEstimates(ck.chunks[j].segments, ck.language)
                <= ck.max_tokens
    /\ ConcatSegments(ck.chunks) = ck.segments

\* C32 as claimed: the 25 segments of about 50 tokens, chunked with
\* max_tokens = 120, give ceil(25 * 50 / 120) = 11 chunks, each within the
\* token bound and none splitting a segment.
C32_ElevenChunks ==
    ExampleChunked => Len(ck.chunks) = 11 /\ WithinTokensUnsplit

\* C32, amended: the 25 segments give 13 chunks: a chunk takes whole segments
\* only, two segments of about 50 tokens fit in max_tokens = 120 and three do
\* not, so the first 12 chunks hold two segments and the last holds one; each
\* chunk is within the token bound and no segment is split.
C32_ThirteenChunks ==
    ExampleChunked =>
        /\ Len(ck.chunks) = 13
        /\ \A j \in 1..12 : Len(ck.chunks[j].segments) = 2
        /\ Len(ck.chunks[13].segments) = 1
        /\ WithinTokensUnsplit

\* C32 witness: the scenario with segments of exactly 50 estimated tokens
\* came back as 13 chunks.
C32_Witness ==
    /\ ExampleChunked
    /\ \A i \in 1..25 : ck.segments[i].words = 31
    /\ estimate_tokens(ck.segments[1], ck.language) = 50
    /\ Len(ck.chunks) = 13


\* The place of a source in the fallback chain of fetch_transcript.
Rank(source) ==
    CASE source = "cache" -> 0
      [] source = "en" -> 1
      [] source = "es" -> 2
      [] source = "auto" -> 3
      [] source = "whisper" -> 4
Sources(calls) == {calls[k].source : k \in 1..Len(calls)}

\* C33: fetch_transcript tries the cache, then the YouTube API (the preferred
\* languages in priority order, then auto-detect), then Whisper, and goes to
\* the next source only when the one before gave nothing: a cache hit is
\* followed by no provider call, Whisper is not called when the YouTube API
\* gave a transcript, and a transcript of a provider is in the cache when the
\* call returns it.
C33_FallbackChain ==
    /\ [](\A t \in Threads :
             LET calls == tc.th[t].calls
             IN  /\ calls # <<>> => calls[1].source = "cache"
                 /\ \A k \in 1..(Len(calls) - 1) :
                       /\ ~calls[k].got
                       /\ Rank(calls[k].source) < Rank(calls[k + 1].source)
                 /\ "es" \in Sources(calls) => "en" \in Sources(calls)
                 /\ "auto" \in Sources(calls) => "es" \in Sources(calls)
                 /\ tc.th[t].pc = "returned" =>
                       /\ calls[Len(calls)].got
                       /\ tc.th[t].result # Nil
                 /\ tc.th[t].pc = "raised" =>
                       /\ calls[Len(calls)] = Attempt("whisper", FALSE)
                       /\ tc.th[t].result = Nil)
    /\ [][\A t \in Threads :
             /\ tc.th[t].pc # "returned" /\ tc'.th[t].pc = "returned"
             /\ tc'.th[t].calls[Len(tc'.th[t].calls)].source # "cache"
             => /\ SetTranscript(t)
                /\ tc'.th[t].result = tc.th[t].lines
                /\ tc'.cache[tc.th[t].video_id] =
                       Some(CacheEntry(Get(tc'.th[t].result), tc.now))]_vars

\* C33 witness: a call went through the whole chain (cache miss, no
\* transcript in en, es or auto-detect, Whisper) and returned the Whisper
\* transcript, which is in the cache.
C33_Witness ==
    \E t \in Threads :
        /\ tc.th[t].pc = "returned"
        /\ tc.th[t].calls =
              <<Attempt("cache", FALSE), Attempt("en", FALSE),
                Attempt("es", FALSE), Attempt("auto", FALSE),
                Attempt("whisper", TRUE)>>
        /\ tc.cache[tc.th[t].video_id] # Nil
        /\ Some(Get(tc.cache[tc.th[t].video_id]).lines) = tc.th[t].result

\* C33 witness: the second preferred language had the transcript; neither
\* auto-detect nor Whisper was called.
C33_WitnessSecondLanguage ==
    \E t \in Threads :
        /\ tc.th[t].pc = "returned"
        /\ tc.th[t].calls =
              <<Attempt("cache", FALSE), Attempt("en", FALSE),
                Attempt("es", TRUE)>>


\* C34: when listing the transcripts failed and the Whisper fallback is
\* enabled, fetch_transcripts downloads the audio and transcribes it: it
\* returns the Whisper transcript without error and has cleaned up the audio
\* file exactly once, or, when the download failed, it returns the
\* download's error code.
C34_WhisperAfterListFailure ==
    /\ ft.pc = "returned"
    /\ ft.lang_error # None
    /\ ft.use_whisper_fallback
    => /\ ft.downloads = 1
       /\ \/ /\ ft.error = None
             /\ ft.transcripts = Some(TranscriptsOf("whisper", "en"))
             /\ ft.cleanups = 1
          \/ /\ ft.error \in DownloadOutcomes \ {"ok"}
             /\ ft.transcripts = Nil
             /\ ft.transcribed = 0
          \/ /\ ft.error \in TranscribeOutcomes \ {"ok"}
             /\ ft.cleanups = 1


\* C35: in every state another task can observe, each job record has
\* completed_at set iff its status is completed or failed, a result iff its
\* status is completed, and an error iff its status is failed.
C35_RecordConsistent ==
    \A b \in JobIds :
        /\ jobs[b].status \in {"pending", "running", "completed", "failed"}
        /\ jobs[b].completed_at # Nil <=> jobs[b].status \in {"completed", "failed"}
        /\ jobs[b].result # Nil <=> jobs[b].status = "completed"
        /\ jobs[b].error # Nil <=> jobs[b].status = "failed"

\* C35 witness: the records of a completed job, of a job cancelled while it
\* was running, and (in another state) of a job that failed with JOB_ERROR.
C35_Witness ==
    \E b, c \in JobIds :
        /\ jobs[b].status = "completed" /\ jobs[b].result # Nil
        /\ jobs[c].status = "failed"
        /\ Get(jobs[c].error).code = "JOB_CANCELLED"
        /\ Get(jobs[c].error).message = "Job was cancelled"
C35_WitnessJobError ==
    \E b \in JobIds :
        /\ jobs[b].status = "failed"
        /\ Get(jobs[b].error).code = "JOB_ERROR"
        /\ jobs[b].completed_at # Nil


\* The item invocations that are inside `async with self.semaphore`.
InsideSemaphore ==
    {<<b, i>> \in Batches \X (1..MaxUrls) :
        i \in Items(b)
            /\ item[b][i].pc \in {"acquired", "awaiting", "hung", "blocking"}}
EndsNow(b, i) ==
    /\ i \in Items(b)
    /\ ~Finished(item[b][i])
    /\ Finished(item'[b][i])

\* C36: no concurrency slot is leaked: the free permits and the invocations
\* inside the semaphore add up to max_concurrent, so the semaphore is back at
\* max_concurrent whenever no invocation is in progress; an invocation that
\* ends (return, TIMEOUT, exception, cancellation while running) gives its
\* permit back in that step, and one cancelled while waiting for a slot
\* takes none.
C36_NoSlotLeak ==
    /\ [](/\ sem + Cardinality(InsideSemaphore) = max_concurrent
          /\ InsideSemaphore = {} => sem = max_concurrent)
    /\ [][\A b \in Batches, i \in 1..MaxUrls :
             EndsNow(b, i) =>
                 sem' = IF <<b, i>> \in InsideSemaphore THEN sem + 1 ELSE sem]_vars

\* C36 witness: a job was cancelled with one item running and one waiting for
\* the slot, an item of it had timed out or raised before, and afterwards an
\* item of a later job holds the slot.
C36_Witness ==
    \E b, c \in JobIds :
        /\ b # c
        /\ tpc[b] = "done"
        /\ Cancelled(b)
        /\ \E i \in Items(b) : item[b][i].pc = "cancelled"
        /\ \E i \in Items(c) : item[c][i].pc = "acquired"
        /\ sem = max_concurrent - 1

\* C36 witness: all the slots are free again after an item timed out, an item
\* raised and the job of both was cancelled.
C36_WitnessAllFree ==
    \E b \in JobIds :
        /\ Cancelled(b)
        /\ Len(item[b]) = MaxUrls
        /\ \A i \in Items(b) : Finished(item[b][i])
        /\ \E i \in Items(b) :
              /\ item[b][i].pc = "done"
              /\ Get(item[b][i].result).code \in {"TIMEOUT", "PROCESSING_ERROR"}
        /\ \E i \in Items(b) : item[b][i].pc = "cancelled"
        /\ InsideSemaphore = {}
        /\ sem = max_concurrent


\* C37: in every state another task can observe, running_tasks holds the
\* task handle of a job iff the status of the job is pending or running; the
\* handle is added by create_job and removed in the step in which the job
\* completes, fails or is cancelled.
C37_HandleIffActive ==
    /\ [](/\ running_tasks \subseteq JobIds
          /\ \A b \in JobIds :
                b \in running_tasks <=> jobs[b].status \in {"pending", "running"})
    /\ [][\A b \in Batches :
             /\ b \notin JobIds /\ b \in DOMAIN jobs' =>
                   b \in running_tasks' /\ jobs'[b].status = "pending"
             /\ b \in running_tasks /\ b \notin running_tasks' =>
                   /\ jobs[b].status \in {"pending", "running"}
                   /\ jobs'[b].status \in {"completed", "failed"}]_vars

\* C37 witness: a running job with its handle, next to a job that was
\* cancelled while running: its handle is gone, its record is failed and its
\* task has not ended yet.
C37_Witness ==
    \E b, c \in JobIds :
        /\ b \in running_tasks /\ jobs[b].status = "running"
        /\ c \notin running_tasks /\ jobs[c].status = "failed"
        /\ Cancelled(c) /\ tpc[c] = "gather"


\* What the pipeline of the invocation has executed: the LLM requests, the
\* backoff sleeps, and its position.
NoFurtherStage ==
    /\ rm'.calls = rm.calls
    /\ rm'.sleeps = rm.sleeps
    /\ rm'.attempt = rm.attempt
    /\ pv'.pc \in {pv.pc, "cancelled"}
    /\ pv'.summaries = pv.summaries
    /\ pv'.result = pv.result

\* C38: when the timeout of an item fires its invocation is cancelled: from
\* then on, and after the TIMEOUT result was produced, no LLM request, no
\* backoff sleep and no stage of that invocation is executed; the result of
\* the item is TIMEOUT and the invocation has ended without a result.
C38_TimeoutCancelsPipeline ==
    /\ [](wf.pc = "timed_out" =>
             /\ wf.result = Some(TimeoutResult(pv.url))
             /\ pv.pc = "cancelled" /\ pv.result = Nil
             /\ rm.pc = "raised" /\ rm.raised = "CancelledError")
    /\ [][/\ wf.cause = "timeout"
          /\ wf.pc \in {"cancelling", "timed_out"}
          /\ ~(\E url \in Urls, n \in 1..MaxAttempts : WfCall(url, n))
          => /\ NoFurtherStage
             /\ wf'.pc = "timed_out"]_vars

\* C38 witness: the timeout fired during the backoff after a failed request,
\* with attempts left: the TIMEOUT result is there and no request followed.
C38_Witness ==
    /\ wf.pc = "timed_out"
    /\ Len(rm.calls) = 1
    /\ Len(rm.sleeps) = 1
    /\ rm.attempt + 1 < rm.max_retries
    /\ Get(wf.result).code = "TIMEOUT"

\* C39: a cancellation (of the job, or by the timeout of the item) that
\* arrives while execute_with_retry awaits the operation or sleeps in its
\* backoff is no failed attempt: last_exception and the attempt number stay,
\* it leaves execute_with_retry at once as CancelledError, and the operation
\* is not called again.
C39_CancelIsNoAttempt ==
    /\ [][DeliverCancel =>
             /\ rm.pc \in {"calling", "sleeping"}
             /\ rm'.pc = "raised"
             /\ rm'.raised = "CancelledError"
             /\ rm'.last_exception = rm.last_exception
             /\ rm'.attempt = rm.attempt
             /\ rm'.calls = rm.calls
             /\ rm'.sleeps = rm.sleeps]_vars
    /\ [][rm.raised = "CancelledError" /\ rm'.raised = "CancelledError" =>
             rm' = rm]_vars
    /\ [](\A k \in 1..Len(rm.calls) : rm.calls[k].error # "CancelledError")

\* C39 witness: the job was cancelled while the first request was awaited,
\* with attempts left: nothing was recorded and nothing was called again.
C39_Witness ==
    /\ wf.pc = "cancelled"
    /\ wf.cause = "cancel"
    /\ rm.raised = "CancelledError"
    /\ rm.calls = <<>>
    /\ rm.last_exception = None
    /\ rm.attempt = 0
    /\ rm.max_retries > 1

\* C39 witness: the timeout arrived during the second backoff sleep.
C39_WitnessSleeping ==
    /\ wf.pc = "timed_out"
    /\ rm.raised = "CancelledError"
    /\ Len(rm.calls) = 2
    /\ Len(rm.sleeps) = 2
    /\ rm.attempt = 1


\* C40: cleanup_old_jobs removes only records whose status is completed or
\* failed and whose completed_at is older than the cutoff (more than
\* max_age_hours before the call); it adds no record, and the pending and
\* running jobs, the task handles and the younger terminal jobs are left as
\* they were.
C40_CleanupFrame ==
    [][\A max_age_hours \in MaxAgeHours :
          CleanupOldJobs(max_age_hours) =>
              /\ running_tasks' = running_tasks
              /\ DOMAIN jobs' \subseteq DOMAIN jobs
              /\ \A b \in DOMAIN jobs :
                    IF b \in DOMAIN jobs'
                    THEN jobs'[b] = jobs[b]
                    ELSE /\ jobs[b].status \in {"completed", "failed"}
                         /\ jobs[b].completed_at # Nil
                         /\ Get(jobs[b].completed_at) + max_age_hours < clock
              /\ \A b \in DOMAIN jobs :
                    jobs[b].status \in {"pending", "running"} =>
                        b \in DOMAIN jobs'
              /\ \A b \in DOMAIN jobs :
                    (/\ jobs[b].completed_at # Nil
                     /\ Get(jobs[b].completed_at) + max_age_hours >= clock) =>
                        b \in DOMAIN jobs']_vars

\* C40 witness: the record of a job was removed while another job is running
\* and has its task handle; and (in another state) while the record of a job
\* that ended in the current hour is kept.
C40_Witness ==
    \E a, b \in Batches :
        /\ kind[a] = "job" /\ a \notin DOMAIN jobs
        /\ b \in DOMAIN jobs /\ jobs[b].status = "running"
        /\ b \in running_tasks
C40_WitnessYoung ==
    \E a, b \in Batches :
        /\ kind[a] = "job" /\ a \notin DOMAIN jobs
        /\ b \in DOMAIN jobs /\ jobs[b].status = "completed"
        /\ jobs[b].completed_at = Some(clock)

=============================================================================
